---- MODULE Spec2Model ----
(***************************************************************************)
(* The Mailman queue switchboard (Mailman/Queue/Switchboard.py) as a state *)
(* machine: a queue directory shared by several processes, each of which   *)
(* holds one Switchboard instance and runs enqueue, dequeue, finish,       *)
(* files and recover_backup_files one system call at a time.               *)
(*                                                                         *)
(* The directory maps file names to inodes, as a POSIX file system does:   *)
(* rename moves a name atomically (replacing the target), open(..., 'w')   *)
(* truncates an existing file in place, and an open file object keeps      *)
(* writing to or reading from its inode whatever happens to the name.      *)
(* File content is kept at the granularity of the two pickles a queue file *)
(* holds: the message segment and the metadata segment.                    *)
(***************************************************************************)
EXTENDS Integers, Sequences, FiniteSets, TLC

VARIABLES
    clock,      \* the value time.time() returns now
    dir,        \* the queue directory: file name -> inode number
    inode,      \* inode number -> [content, synced]
    pc,         \* per process: where it stands in the call it is running
    loc,        \* per process: the local variables of that call
    inst,       \* per process: its Switchboard instance (__lower, __upper), and
                \* the slice arguments it was constructed with
    res,        \* history: what the last call of an observed process returned or raised
    observed,   \* history: the processes whose results are recorded
    holding,    \* per process: the claims it is processing (dequeued, not finished)
    orphans,    \* history: the claims of crashed consumers still in flight
    issued,     \* history: one record per kind of enqueue call that returned an id
    dupIds,     \* history: the ids that enqueue returned more than once
    live,       \* history: the ids enqueue returned and no finish has deleted since
    claimed,    \* history: the ids a dequeue renamed and no recovery has restored since
    enqCalls,   \* history: number of enqueue calls started
    crashes,    \* history: number of crashes of observed processes
    work,       \* per process: what is left of the listing its consumer loop works on
    heap        \* the mapping objects that enqueue is passed by reference:
                \* the default of its _metadata parameter, and a caller's own

vars == <<clock, dir, inode, pc, loc, inst, res, observed, holding, orphans,
          issued, dupIds, live, claimed, enqCalls, crashes, work, heap>>

(***************************************************************************)
(* Bounds of the model.                                                    *)
(***************************************************************************)
MaxClock == 1
MaxEnqueue == 2
MaxSlices == 3
MaxCrash == 2
MaxFiles == 3

Procs == {"p1", "p2"}

(***************************************************************************)
(* Program constants.                                                      *)
(***************************************************************************)
\* 20 bytes of all bits set in the source; the digest is 5 bits wide here.
shamax == 31
SAVE_MSGS_AS_PICKLES == TRUE
\* config.QFILE_SCHEMA_VERSION
QFILE_SCHEMA_VERSION == 3
\* Python's None where an integer is expected (__lower, __upper, slice).
None == -1
\* the time added to a sort key that is taken; the clock ticks in halves of it
DELTA == 2

(***************************************************************************)
(* Dictionaries: functions from a finite set of string keys.               *)
(***************************************************************************)
EmptyDict == <<>>

Has(d, k) == k \in DOMAIN d

\* d.get(k, default)
Get(d, k, default) == IF Has(d, k) THEN d[k] ELSE default

\* d.update(e) on a copy of d
Update(d, e) ==
    [k \in (DOMAIN d) \cup (DOMAIN e) |-> IF Has(e, k) THEN e[k] ELSE d[k]]

\* d[k] = v on a copy of d
Put(d, k, v) == [x \in (DOMAIN d) \cup {k} |-> IF x = k THEN v ELSE d[x]]

\* k.startswith('_'), over the keys of the model
PrivateKeys == {"_plaintext", "_parsemsg", "_private"}
StartsWithUnderscore(k) == k \in PrivateKeys

\* a filter that deletes nothing
FilterNothing(d) == d

\* for k in data.keys(): if k.startswith('_'): del data[k]
FilterVolatile(d) ==
    [k \in {x \in DOMAIN d : ~StartsWithUnderscore(x)} |-> d[k]]

(***************************************************************************)
(* Messages and their serialisation.                                       *)
(***************************************************************************)
Msgs == {"m1", "m2"}
ListNames == {"a", "--nolist--"}

\* str(_msg): the flattened text of a message
Str(m) == [text |-> m]
\* email.message_from_string(msg, Message.Message)
MessageFromString(t) == t.text

\* cPickle.dumps(obj, protocol): the message segment of a queue file
PickleMsg(obj, protocol) == [seg |-> "msg", proto |-> protocol, obj |-> obj]
\* cPickle.dump(data, fp, protocol): the metadata segment
PickleData(data, protocol) == [seg |-> "data", proto |-> protocol, obj |-> data]
\* what a sparse write leaves below its offset
Hole == [seg |-> "hole"]

MsgIndex(m) == IF m = "m1" THEN 0 ELSE 1
ListIndex(l) == IF l = "a" THEN 0 ELSE 1

\* sha.new(hashfood).hexdigest() read as a number: a digest of the message
\* segment, the list name and repr(now), collision free on the values of the
\* model and spread over [0, shamax].
ShaIndex(msgsave, listname, now) ==
    MsgIndex(IF msgsave.proto = 1 THEN msgsave.obj ELSE msgsave.obj.text)
      + 2 * (1 - msgsave.proto) + 4 * ListIndex(listname) + 8 * now
Sha(msgsave, listname, now) ==
    (13 * ShaIndex(msgsave, listname, now) + 5) % (shamax + 1)

(***************************************************************************)
(* File names and the file system.                                         *)
(***************************************************************************)
\* filebase + extension; the temporary name is filebase + '.pck' + '.tmp'
Pck(filebase) == [base |-> filebase, ext |-> "pck"]
Bak(filebase) == [base |-> filebase, ext |-> "bak"]
Tmp(filebase) == [base |-> filebase, ext |-> "tmp"]

Exists(d, name) == name \in DOMAIN d

\* os.rename(src, dst): atomic, replaces dst
Rename(d, src, dst) ==
    [n \in ((DOMAIN d) \ {src}) \cup {dst} |-> IF n = dst THEN d[src] ELSE d[n]]

\* os.unlink(name)
Unlink(d, name) == [n \in (DOMAIN d) \ {name} |-> d[n]]

\* creating a directory entry for a new inode
Link(d, name, ino) == [n \in (DOMAIN d) \cup {name} |-> IF n = name THEN ino ELSE d[n]]

\* line 127: os.rename(tmpfile, filename)
EnqCommit(d, filebase) == Rename(d, Tmp(filebase), Pck(filebase))

\* a dequeue that removes the pending name and creates no in-flight name
DeqClaimUnlinks(d, filebase) == Unlink(d, Pck(filebase))

\* a dequeue that copies the pending file to the in-flight name and leaves
\* the pending name in place
DeqClaimCopies(d, filebase) == Link(d, Bak(filebase), d[Pck(filebase)])

\* line 142: os.rename(filename, backfile)
DeqClaim(d, filebase) == Rename(d, Pck(filebase), Bak(filebase))

\* a finish that deletes the pending file of the id with the in-flight one
FinishDeleteBoth(d, filebase) == Unlink(Unlink(d, Bak(filebase)), Pck(filebase))

\* line 155: os.unlink(bakfile)
FinishDelete(d, filebase) == Unlink(d, Bak(filebase))

\* a recovery that deletes the in-flight file instead of restoring it
RecRestoreDrops(d, filebase) == Unlink(d, Bak(filebase))

\* lines 188-190: os.rename(src, dst)
RecRestore(d, filebase) == Rename(d, Bak(filebase), Pck(filebase))

EmptyFile == [content |-> <<>>, synced |-> FALSE]

\* write(2) of one segment at file offset off (counted in segments)
WriteAt(content, off, s) ==
    LET len == IF off + 1 > Len(content) THEN off + 1 ELSE Len(content)
    IN  [i \in 1..len |->
            IF i = off + 1 THEN s
            ELSE IF i <= Len(content) THEN content[i] ELSE Hole]

(***************************************************************************)
(* enqueue, lines 86-117: what is computed before the file is written.     *)
(***************************************************************************)
\* an update in which the mapping wins over the keyword arguments
EnqData0MappingWins(metadata, kws) == Update(kws, metadata)

\* data = _metadata.copy(); data.update(_kws)
EnqData0(metadata, kws) == Update(metadata, kws)

EnqListname(data0) == Get(data0, "listname", "--nolist--")

EnqProtocol(data0) ==
    IF SAVE_MSGS_AS_PICKLES /\ ~Get(data0, "_plaintext", FALSE) THEN 1 ELSE 0

EnqMsgsave(msg, data0) ==
    IF EnqProtocol(data0) = 1
    THEN PickleMsg(msg, 1)
    ELSE PickleMsg(Str(msg), 0)

\* an assignment of the current time whatever the metadata carries
EnqRcvtimeNow(data0, now) == now

\* rcvtime = data.setdefault('received_time', now)
EnqRcvtime(data0, now) == Get(data0, "received_time", now)

EnqFilebase(msg, data0, now) ==
    <<EnqRcvtime(data0, now),
      Sha(EnqMsgsave(msg, data0), EnqListname(data0), now)>>

\* a dictionary that keeps the version it came with
EnqStoredKeepsVersion(data0, now) ==
    LET d1 == Put(data0, "received_time", Get(data0, "received_time", now))
        d2 == Put(d1, "version", Get(d1, "version", QFILE_SCHEMA_VERSION))
        d3 == FilterVolatile(d2)
    IN  Put(d3, "_parsemsg", EnqProtocol(data0) = 0)

\* a dictionary whose encoding flag is set before the private keys are deleted
EnqStoredFlagFirst(data0, now) ==
    LET d1 == Put(data0, "received_time", Get(data0, "received_time", now))
        d2 == Put(d1, "version", QFILE_SCHEMA_VERSION)
        d3 == Put(d2, "_parsemsg", EnqProtocol(data0) = 0)
    IN  FilterVolatile(d3)

\* the dictionary that is pickled
EnqStored(data0, now) ==
    LET d1 == Put(data0, "received_time", EnqRcvtime(data0, now))
        d2 == Put(d1, "version", QFILE_SCHEMA_VERSION)
        d3 == FilterVolatile(d2)
    IN  Put(d3, "_parsemsg", EnqProtocol(data0) = 0)

(***************************************************************************)
(* files(extension), lines 159-181.                                        *)
(***************************************************************************)
\* a range test that lets every digest pass
InSliceAny(lower, upper, digest) == TRUE

\* lower is None or (lower <= long(digest, 16) <= upper)
InSlice(lower, upper, digest) ==
    lower = None \/ (lower <= digest /\ digest <= upper)

\* The sort keys are floats (line 174), whose spacing grows with their size:
\* from 2^40 seconds on, DELTA is less than half the distance from a float to
\* the next one, and key + DELTA is rounded back to key.  Huge stands for the
\* times from there on, among them inf; the times below it are added exactly.
Huge == 1000

\* line 176: key += DELTA
FloatAdd(key, d) == IF key >= Huge THEN key ELSE key + d

\* a tie-break that adds DELTA once, whether or not the new key is free
FreeKeyOnce(key, times) == IF key \in DOMAIN times THEN key + DELTA ELSE key

\* key = float(when); while key in times: key += DELTA
RECURSIVE FreeKey(_, _)
FreeKey(key, times) ==
    IF key \in DOMAIN times THEN FreeKey(FloatAdd(key, DELTA), times) ELSE key

\* a test that lets every extension pass
ExtMatchesAny(ext, extension) == TRUE

\* line 167: if ext <> extension: continue
ExtMatches(ext, extension) == ext = extension

\* line 169: when, digest = filebase.split('+').  A base name is the sequence
\* of its parts between the '+' signs, and the assignment raises ValueError
\* unless there are two.
Splits(filebase) == Len(filebase) = 2

\* files(extension) raises ValueError: a name with the extension does not split
FilesRaises(order, extension) ==
    \E i \in DOMAIN order :
        ExtMatches(order[i].ext, extension) /\ ~Splits(order[i].base)

\* the loop over os.listdir(), which hands the names over in the order `order`
RECURSIVE FilesLoop(_, _, _, _, _)
FilesLoop(order, times, extension, lower, upper) ==
    IF order = <<>> THEN times
    ELSE LET f == Head(order)
             when == f.base[1]
             digest == f.base[2]
         IN  IF ~ExtMatches(f.ext, extension) \/ ~InSlice(lower, upper, digest)
             THEN FilesLoop(Tail(order), times, extension, lower, upper)
             ELSE LET key == FreeKey(when, times)
                  IN  FilesLoop(Tail(order),
                                [k \in (DOMAIN times) \cup {key} |->
                                    IF k = key THEN f.base ELSE times[k]],
                                extension, lower, upper)

Min(S) == CHOOSE x \in S : \A y \in S : x <= y

\* keys = times.keys(); keys.sort(); return [times[k] for k in keys]
RECURSIVE SortedValues(_)
SortedValues(times) ==
    IF DOMAIN times = {} THEN <<>>
    ELSE LET k == Min(DOMAIN times)
         IN  <<times[k]>> \o SortedValues([x \in (DOMAIN times) \ {k} |-> times[x]])

Files(order, extension, lower, upper) ==
    SortedValues(FilesLoop(order, <<>>, extension, lower, upper))

\* the orders in which os.listdir() may return the names of a directory
RECURSIVE Orders(_)
Orders(S) ==
    IF S = {} THEN {<<>>}
    ELSE UNION {{<<x>> \o o : o \in Orders(S \ {x})} : x \in S}

Range(s) == {s[i] : i \in DOMAIN s}

(***************************************************************************)
(* Reading a queue file back, lines 144-149.                               *)
(***************************************************************************)
\* both cPickle.load calls succeed
Loadable(content) ==
    /\ Len(content) >= 2
    /\ content[1].seg = "msg"
    /\ content[2].seg = "data"

\* (msg, data) as dequeue returns them
Loaded(content) ==
    LET msg == content[1].obj
        data == content[2].obj
    IN  [msg |-> IF Get(data, "_parsemsg", FALSE) THEN MessageFromString(msg) ELSE msg,
         data |-> data]

(***************************************************************************)
(* The state of a process between calls.                                   *)
(***************************************************************************)
NoLoc == [op |-> "none"]
NoRes == [op |-> "none"]
\* the instance that Switchboard(whichq) constructs
NoSlices == [lower |-> None, upper |-> None, slice |-> None, numslices |-> 1]

\* the ids a caller can name: those of the directory and those enqueue returned
KnownIds == {n.base : n \in DOMAIN dir} \cup {r.id : r \in issued}

\* the slice arguments of the constructor
Unsliced == {<<None, 1>>}
SliceConfigs ==
    Unsliced \cup {<<s, 1>> : s \in 0..1}
             \cup UNION {{<<s, n>> : s \in 0..(n - 1)} : n \in 2..MaxSlices}

\* line 82: the one mapping object that the parameter _metadata={} is bound to
\* in every call that passes no metadata
Defaults == [default |-> EmptyDict]

\* the inputs of enqueue
Metadatas ==
    { [listname |-> "a"],
      [listname |-> "a", recips |-> "r"] }
Keywords == { EmptyDict }
Payloads == { "m1" }

Init ==
    /\ clock = 0
    /\ dir = <<>>
    /\ inode = <<>>
    /\ pc = [p \in Procs |-> "idle"]
    /\ loc = [p \in Procs |-> NoLoc]
    /\ inst = [p \in Procs |-> NoSlices]
    /\ res = [p \in Procs |-> NoRes]
    /\ observed = {}
    /\ holding = [p \in Procs |-> {}]
    /\ orphans = {}
    /\ issued = {}
    /\ dupIds = {}
    /\ live = {}
    /\ claimed = {}
    /\ enqCalls = 0
    /\ crashes = 0
    /\ work = [p \in Procs |-> <<>>]
    /\ heap = Defaults

\* the history after process p's call returned or raised r
Observe(p, r) == IF p \in observed THEN [res EXCEPT ![p] = r] ELSE res

(***************************************************************************)
(* enqueue, lines 82-128.                                                  *)
(***************************************************************************)
\* lines 86-122: the name and the content are computed, the temporary file is
\* opened for writing, which creates it or truncates it in place, and both
\* pickles go to the buffer of the file object.  time.time() returns now: the
\* clock does not run backwards, and it may still stand where the last call
\* read it.
EnqBegin(p, msg, metadata, kws, now) ==
    /\ pc[p] = "idle"
    /\ enqCalls < MaxEnqueue
    /\ now >= clock
    /\ clock' = now
    /\ LET data0 == EnqData0(metadata, kws)
           filebase == EnqFilebase(msg, data0, now)
           tmpfile == Tmp(filebase)
           fd == IF Exists(dir, tmpfile) THEN dir[tmpfile] ELSE Len(inode) + 1
       IN  /\ dir' = Link(dir, tmpfile, fd)
           /\ inode' = IF Exists(dir, tmpfile)
                       THEN [inode EXCEPT ![fd] = EmptyFile]
                       ELSE Append(inode, EmptyFile)
           /\ loc' = [loc EXCEPT ![p] =
                        [op |-> "enqueue", filebase |-> filebase, fd |-> fd,
                         msgsave |-> EnqMsgsave(msg, data0),
                         data |-> EnqStored(data0, now),
                         protocol |-> EnqProtocol(data0),
                         args |-> [msg |-> msg, metadata |-> metadata,
                                   kws |-> kws, now |-> now]]]
    /\ pc' = [pc EXCEPT ![p] = "enq_flush"]
    /\ enqCalls' = enqCalls + 1
    /\ UNCHANGED <<crashes, work, observed, inst, res, holding, orphans, issued, dupIds, live, claimed>>

\* a call that binds data to the mapping it was passed, so that every write
\* of lines 87-117 goes to the caller's object
EnqPassedAliased(metadata, kws, now) == EnqStored(EnqData0(metadata, kws), now)

\* the mapping that _metadata names, after the call: line 86 makes data a
\* copy, and lines 87, 105, 110, 114 and 117 write to data only
EnqPassed(metadata, kws, now) == metadata

\* enqueue(msg, metadata, **kws) with a mapping built for this call
EnqOpen(p, msg, metadata, kws, now) ==
    /\ EnqBegin(p, msg, metadata, kws, now)
    /\ heap' = heap

\* enqueue(msg, obj, **kws), or enqueue(msg, **kws) for the default, with a
\* mapping object that outlives the call
EnqOpenRef(p, msg, ref, kws, now) ==
    /\ EnqBegin(p, msg, heap[ref], kws, now)
    /\ heap' = [heap EXCEPT ![ref] = EnqPassed(@, kws, now)]

\* what fp.write(msgsave); cPickle.dump(data, fp, protocol) put into the file
\* from offset 0 on
Written(content, msgsave, data, protocol) ==
    WriteAt(WriteAt(content, 0, msgsave), 1, PickleData(data, protocol))

\* lines 123-126: fp.flush(); os.fsync(fp.fileno()); fp.close()
EnqFlush(p) ==
    /\ pc[p] = "enq_flush"
    /\ inode' = [inode EXCEPT ![loc[p].fd] =
                    [content |-> Written(@.content, loc[p].msgsave, loc[p].data,
                                         loc[p].protocol),
                     synced |-> TRUE]]
    /\ pc' = [pc EXCEPT ![p] = "enq_rename"]
    /\ UNCHANGED <<heap, crashes, work, observed, clock, dir, loc, inst, res, holding, orphans, issued, dupIds, live,
                   claimed, enqCalls>>

\* lines 127-128: os.rename(tmpfile, filename); return filebase.  The rename
\* raises OSError when the temporary name is gone.
EnqRename(p) ==
    /\ pc[p] = "enq_rename"
    /\ LET filebase == loc[p].filebase
       IN  IF Exists(dir, Tmp(filebase))
           THEN /\ dir' = EnqCommit(dir, filebase)
                /\ res' = Observe(p, [op |-> "enqueue", status |-> "ok", id |-> filebase])
                /\ issued' = issued \cup
                               {[id |-> filebase, msgsave |-> loc[p].msgsave,
                                 data |-> loc[p].data, protocol |-> loc[p].protocol]}
                /\ dupIds' = IF filebase \in {r.id : r \in issued}
                             THEN dupIds \cup {filebase} ELSE dupIds
                /\ live' = live \cup {filebase}
           ELSE /\ res' = Observe(p, [op |-> "enqueue", status |-> "error", id |-> filebase])
                /\ UNCHANGED <<dir, issued, dupIds, live>>
    /\ pc' = [pc EXCEPT ![p] = "idle"]
    /\ loc' = [loc EXCEPT ![p] = NoLoc]
    /\ UNCHANGED <<heap, crashes, work, observed, clock, inode, inst, holding, orphans, claimed, enqCalls>>

\* the flush, the fsync or the rename raises (IOError, OSError): the finally
\* clause closes the file and the exception reaches the caller
EnqFail(p) ==
    /\ pc[p] \in {"enq_flush", "enq_rename"}
    /\ res' = Observe(p, [op |-> "enqueue", status |-> "error", id |-> loc[p].filebase])
    /\ pc' = [pc EXCEPT ![p] = "idle"]
    /\ loc' = [loc EXCEPT ![p] = NoLoc]
    /\ UNCHANGED <<heap, crashes, work, observed, clock, dir, inode, inst, holding, orphans, issued, dupIds, live,
                   claimed, enqCalls>>

(***************************************************************************)
(* dequeue, lines 130-150.                                                 *)
(***************************************************************************)
\* the claims of crashed consumers whose in-flight file is still in directory d
StillInFlight(claims, d) ==
    {c \in claims : Exists(d, Bak(c.id)) /\ d[Bak(c.id)] = c.ino}

\* an open that creates the file when there is none (mode 'a' or 'w')
OpenForAppending(d, name) == IF Exists(d, name) THEN d ELSE Link(d, name, 0)

\* line 135: open(filename), mode 'r' by default: the directory is not changed
OpenForReading(d, name) == d

\* line 135: fp = open(filename), which raises IOError when there is no such file
DeqOpen(p, filebase) ==
    /\ pc[p] = "idle"
    /\ dir' = OpenForReading(dir, Pck(filebase))
    /\ IF Exists(dir, Pck(filebase))
       THEN /\ loc' = [loc EXCEPT ![p] =
                         [op |-> "dequeue", filebase |-> filebase,
                          fd |-> dir[Pck(filebase)]]]
            /\ pc' = [pc EXCEPT ![p] = "deq_rename"]
            /\ res' = res
       ELSE /\ res' = Observe(p, [op |-> "dequeue", status |-> "notfound",
                                    id |-> filebase, exc |-> "IOError"])
            /\ pc' = [pc EXCEPT ![p] = "idle"]
            /\ loc' = loc
    /\ UNCHANGED <<heap, crashes, work, observed, clock, inode, inst, holding, orphans, issued, dupIds, live,
                   claimed, enqCalls>>

\* line 142: os.rename(filename, backfile), which raises OSError when the
\* pending name is gone
DeqRename(p) ==
    /\ pc[p] = "deq_rename"
    /\ LET filebase == loc[p].filebase
       IN  IF Exists(dir, Pck(filebase))
           THEN /\ dir' = DeqClaim(dir, filebase)
                /\ pc' = [pc EXCEPT ![p] = "deq_load"]
                /\ claimed' = claimed \cup {filebase}
                /\ loc' = [loc EXCEPT ![p] =
                             [op |-> "dequeue", filebase |-> filebase,
                              fd |-> loc[p].fd, moved |-> dir[Pck(filebase)],
                              undone |-> FALSE]]
                /\ res' = res
           ELSE /\ pc' = [pc EXCEPT ![p] = "idle"]
                /\ loc' = [loc EXCEPT ![p] = NoLoc]
                /\ res' = Observe(p, [op |-> "dequeue", status |-> "notfound",
                                        id |-> filebase, exc |-> "OSError"])
                /\ UNCHANGED <<dir, claimed>>
    /\ orphans' = StillInFlight(orphans, dir')
    /\ UNCHANGED <<heap, crashes, work, observed, clock, inode, inst, holding, issued, dupIds, live, enqCalls>>

\* lines 143-150: both pickles are read from the open file and returned; a
\* file that does not hold them raises an unpickling error.  From its return
\* on the consumer holds the file that its rename moved.
DeqLoad(p) ==
    /\ pc[p] = "deq_load"
    /\ LET filebase == loc[p].filebase
           content == inode[loc[p].fd].content
       IN  IF Loadable(content)
           THEN /\ res' = Observe(p, [op |-> "dequeue", status |-> "ok", id |-> filebase,
                              got |-> Loaded(content)])
                /\ holding' = [holding EXCEPT ![p] = @ \cup
                                 {[id |-> filebase, ino |-> loc[p].moved, undone |-> loc[p].undone,
                                   got |-> Loaded(content)]}]
           ELSE /\ res' = Observe(p, [op |-> "dequeue", status |-> "corrupt", id |-> filebase])
                /\ holding' = holding
    /\ pc' = [pc EXCEPT ![p] = "idle"]
    /\ loc' = [loc EXCEPT ![p] = NoLoc]
    /\ UNCHANGED <<heap, crashes, work, observed, clock, dir, inode, inst, orphans, issued, dupIds, live, claimed,
                   enqCalls>>

(***************************************************************************)
(* finish, lines 152-157.                                                  *)
(***************************************************************************)
\* a call of finish that raises to its caller instead of returning
FinishStatusRaises(deletes) == IF deletes THEN "ok" ELSE "error"

\* lines 154-157: try: os.unlink(bakfile); except EnvironmentError: log it.
\* The call returns normally whether the unlink deleted the file or not.
FinishStatus(deletes) == "ok"

\* os.unlink(bakfile); an EnvironmentError (no such file, or `denied`: the
\* unlink is refused) is logged and swallowed
Finish(p, filebase, denied) ==
    /\ pc[p] = "idle"
    /\ LET deletes == Exists(dir, Bak(filebase)) /\ ~denied
       IN  /\ dir' = IF deletes THEN FinishDelete(dir, filebase) ELSE dir
           /\ res' = Observe(p, [op |-> "finish", status |-> FinishStatus(deletes),
                                  id |-> filebase, logged |-> ~deletes,
                                  found |-> Exists(dir, Bak(filebase))])
           /\ live' = IF deletes THEN live \ {filebase} ELSE live
    /\ pc' = [pc EXCEPT ![p] = "idle"]
    /\ holding' = [holding EXCEPT ![p] = {c \in @ : c.id # filebase}]
    /\ orphans' = StillInFlight(orphans, dir')
    /\ UNCHANGED <<heap, crashes, work, observed, clock, inode, loc, inst, issued, dupIds, claimed, enqCalls>>

(***************************************************************************)
(* files, lines 159-181, as a call of its own.                             *)
(***************************************************************************)
ListFiles(p, order) ==
    /\ pc[p] = "idle"
    /\ res' = Observe(p, IF FilesRaises(order, "pck")
                          THEN [op |-> "files", status |-> "error",
                                exc |-> "ValueError"]
                          ELSE [op |-> "files", status |-> "ok",
                                list |-> Files(order, "pck", inst[p].lower,
                                               inst[p].upper)])
    /\ pc' = [pc EXCEPT ![p] = "idle"]
    /\ UNCHANGED <<heap, crashes, work, observed, clock, dir, inode, loc, inst, holding, orphans, issued, dupIds,
                   live, claimed, enqCalls>>

(***************************************************************************)
(* recover_backup_files, lines 183-190.                                    *)
(***************************************************************************)
\* line 187: the in-flight names of the slice are listed once, at the start;
\* a ValueError of files('.bak') ends the pass
RecStart(p, order) ==
    /\ pc[p] = "idle"
    /\ LET raises == FilesRaises(order, "bak")
           todo == IF raises THEN <<>>
                   ELSE Files(order, "bak", inst[p].lower, inst[p].upper)
       IN  IF todo = <<>>
           THEN /\ res' = Observe(p, [op |-> "recover",
                                      status |-> IF raises THEN "error" ELSE "ok"])
                /\ pc' = [pc EXCEPT ![p] = "idle"]
                /\ loc' = loc
           ELSE /\ res' = res
                /\ pc' = [pc EXCEPT ![p] = "rec"]
                /\ loc' = [loc EXCEPT ![p] =
                             [op |-> "recover", todo |-> todo, ctor |-> FALSE]]
    /\ UNCHANGED <<heap, crashes, work, observed, clock, dir, inode, inst, holding, orphans, issued, dupIds, live,
                   claimed, enqCalls>>

\* lines 188-190: os.rename(src, dst) for the next listed name; it raises
\* OSError, which ends the pass, when the in-flight name is gone.  A pass that
\* the constructor runs ends in a usable instance, or in no instance when it
\* raises.
RecRename(p) ==
    /\ pc[p] = "rec"
    /\ LET filebase == Head(loc[p].todo)
           rest == Tail(loc[p].todo)
       IN  IF Exists(dir, Bak(filebase))
           THEN /\ dir' = RecRestore(dir, filebase)
                /\ claimed' = claimed \ {filebase}
                /\ holding' = [q \in Procs |->
                                 {IF c.id = filebase /\ c.ino = dir[Bak(filebase)]
                                  THEN [c EXCEPT !.undone = TRUE] ELSE c
                                    : c \in holding[q]}]
                /\ loc' = [q \in Procs |->
                             IF q = p
                             THEN IF rest # <<>> THEN [loc[p] EXCEPT !.todo = rest]
                                  ELSE NoLoc
                             ELSE IF pc[q] = "deq_load" /\ loc[q].moved = dir[Bak(filebase)]
                                  THEN [loc[q] EXCEPT !.undone = TRUE]
                                  ELSE loc[q]]
                /\ IF rest # <<>>
                   THEN UNCHANGED <<pc, res>>
                   ELSE IF loc[p].ctor
                           THEN /\ pc' = [pc EXCEPT ![p] = "idle"]
                                /\ res' = res
                           ELSE /\ pc' = [pc EXCEPT ![p] = "idle"]
                                /\ res' = Observe(p, [op |-> "recover", status |-> "ok"])
           ELSE /\ loc' = [loc EXCEPT ![p] = NoLoc]
                /\ IF loc[p].ctor
                   THEN /\ pc' = [pc EXCEPT ![p] = "down"]
                        /\ res' = res
                   ELSE /\ pc' = [pc EXCEPT ![p] = "idle"]
                        /\ res' = Observe(p, [op |-> "recover", status |-> "error"])
                /\ UNCHANGED <<dir, claimed, holding>>
    /\ orphans' = StillInFlight(orphans, dir')
    /\ UNCHANGED <<heap, crashes, work, observed, clock, inode, inst, issued, dupIds, live, enqCalls>>

(***************************************************************************)
(* Processes: crash and restart.                                           *)
(***************************************************************************)
\* the process dies wherever it stands; its open files are closed, what it
\* was processing is orphaned and the listing its loop worked on is lost
Crash(p) ==
    /\ pc[p] # "down"
    /\ pc' = [pc EXCEPT ![p] = "down"]
    /\ loc' = [loc EXCEPT ![p] = NoLoc]
    /\ res' = Observe(p, NoRes)
    /\ holding' = [holding EXCEPT ![p] = {}]
    /\ orphans' = orphans \cup
                    StillInFlight({[id |-> c.id, ino |-> c.ino, got |-> c.got] :
                                     c \in {h \in holding[p] : ~h.undone}}, dir)
    /\ crashes' = IF p \in observed THEN crashes + 1 ELSE crashes
    /\ work' = [work EXCEPT ![p] = <<>>]
    /\ UNCHANGED <<heap, observed, clock, dir, inode, inst, issued, dupIds, live, claimed, enqCalls>>

\* a constructor that computes the range whatever numslices is
LowerSliced(slice, numslices) == ((shamax + 1) * slice) \div numslices

\* a constructor that rounds the upper end of the range up
UpperCeil(slice, numslices) ==
    IF numslices # 1
    THEN ((((shamax + 1) * (slice + 1)) + numslices - 1) \div numslices) - 1
    ELSE None

\* __init__, lines 65-77, in a newly started process; when the recovery pass
\* raises at its listing there is no instance and the process stays down
Lower(slice, numslices) ==
    IF numslices # 1 THEN ((shamax + 1) * slice) \div numslices ELSE None
Upper(slice, numslices) ==
    IF numslices # 1 THEN (((shamax + 1) * (slice + 1)) \div numslices) - 1 ELSE None

Construct(p, slice, numslices, recover, order) ==
    /\ pc[p] = "down"
    /\ inst' = [inst EXCEPT ![p] = [lower |-> Lower(slice, numslices),
                                    upper |-> Upper(slice, numslices),
                                    slice |-> slice, numslices |-> numslices]]
    /\ LET raises == recover /\ FilesRaises(order, "bak")
           todo == IF recover /\ ~raises
                   THEN Files(order, "bak", Lower(slice, numslices),
                              Upper(slice, numslices))
                   ELSE <<>>
       IN  IF raises
           THEN /\ pc' = pc
                /\ loc' = loc
           ELSE IF todo = <<>>
           THEN /\ pc' = [pc EXCEPT ![p] = "idle"]
                /\ loc' = loc
           ELSE /\ pc' = [pc EXCEPT ![p] = "rec"]
                /\ loc' = [loc EXCEPT ![p] =
                             [op |-> "recover", todo |-> todo, ctor |-> TRUE]]
    /\ UNCHANGED <<heap, crashes, work, observed, clock, dir, inode, res, holding, orphans, issued, dupIds, live,
                   claimed, enqCalls>>

Next ==
    \/ \E p \in Procs :
        \/ \E msg \in Payloads, metadata \in Metadatas, kws \in Keywords,
              now \in 0..MaxClock :
              EnqOpen(p, msg, metadata, kws, now)
        \/ EnqFlush(p)
        \/ EnqRename(p)
        \/ EnqFail(p)
        \/ \E filebase \in KnownIds : DeqOpen(p, filebase)
        \/ DeqRename(p)
        \/ DeqLoad(p)
        \/ \E filebase \in KnownIds, denied \in BOOLEAN : Finish(p, filebase, denied)
        \/ \E order \in Orders(DOMAIN dir) : ListFiles(p, order)
        \/ \E order \in Orders(DOMAIN dir) : RecStart(p, order)
        \/ RecRename(p)
        \/ Crash(p)
        \/ \E cfg \in Unsliced, recover \in BOOLEAN, order \in Orders(DOMAIN dir) :
              Construct(p, cfg[1], cfg[2], recover, order)

Spec == Init /\ [][Next]_vars

(***************************************************************************)
(* The ids of the directory.                                               *)
(***************************************************************************)
Pending(d) == {n.base : n \in {x \in DOMAIN d : x.ext = "pck"}}
InFlight(d) == {n.base : n \in {x \in DOMAIN d : x.ext = "bak"}}

(***************************************************************************)
(* C1: in every reachable state no id has both its pending (.pck) and its  *)
(* in-flight (.bak) file in the queue directory.                           *)
(***************************************************************************)
C1_NeverPendingAndInFlight == Pending(dir) \cap InFlight(dir) = {}

(***************************************************************************)
(* C2: from the moment enqueue returned an id until a finish call for that *)
(* id actually deletes the in-flight file, the id has a pending or an      *)
(* in-flight file in the directory (live holds exactly those ids).         *)
(***************************************************************************)
C2_CommittedItemKept == \A id \in live : id \in Pending(dir) \cup InFlight(dir)

\* an enqueued id was dequeued, its consumer crashed, a finish that could not
\* delete the file was logged or none was called: the id is still in flight
C2_Witness == \E c \in orphans : c.id \in live /\ c.id \in InFlight(dir)

(***************************************************************************)
(* The race of two consumers for pending ids: the directory holds the      *)
(* files of one or two completed enqueue calls, and each process calls     *)
(* dequeue once, with no recovery pass.                                    *)
(***************************************************************************)
EnqInputs == Payloads \X Metadatas \X Keywords \X (0..MaxClock)

\* the file that enqueue(msg, metadata, **kws) leaves when time.time() is now
EnqueuedFile(in) ==
    LET data0 == EnqData0(in[2], in[3])
    IN  [content |-> Written(<<>>, EnqMsgsave(in[1], data0), EnqStored(data0, in[4]),
                             EnqProtocol(data0)),
         synced |-> TRUE]

EnqueuedId(in) == EnqFilebase(in[1], EnqData0(in[2], in[3]), in[4])

EnqueuedRecord(in) ==
    LET data0 == EnqData0(in[2], in[3])
    IN  [id |-> EnqueuedId(in), msgsave |-> EnqMsgsave(in[1], data0),
         data |-> EnqStored(data0, in[4]), protocol |-> EnqProtocol(data0)]

InitRace ==
    \E first \in EnqInputs, second \in EnqInputs, both \in BOOLEAN :
        /\ first[4] <= second[4]
        /\ both => EnqueuedId(first) # EnqueuedId(second)
        /\ ~both => first = second
        /\ clock = second[4]
        /\ dir = IF both
                 THEN Link(Link(<<>>, Pck(EnqueuedId(first)), 1),
                           Pck(EnqueuedId(second)), 2)
                 ELSE Link(<<>>, Pck(EnqueuedId(first)), 1)
        /\ inode = IF both
                   THEN <<EnqueuedFile(first), EnqueuedFile(second)>>
                   ELSE <<EnqueuedFile(first)>>
        /\ issued = {EnqueuedRecord(first), EnqueuedRecord(second)}
        /\ live = {EnqueuedId(first), EnqueuedId(second)}
        /\ enqCalls = IF both THEN 2 ELSE 1
        /\ crashes = 0
        /\ work = [p \in Procs |-> <<>>]
        /\ heap = Defaults
        /\ pc = [p \in Procs |-> "idle"]
        /\ loc = [p \in Procs |-> NoLoc]
        /\ inst = [p \in Procs |-> NoSlices]
        /\ res = [p \in Procs |-> NoRes]
        /\ observed = Procs
        /\ holding = [p \in Procs |-> {}]
        /\ orphans = {}
        /\ dupIds = {}
        /\ claimed = {}

\* the one dequeue call of process p
RaceDeqOpen(p, filebase) == res[p] = NoRes /\ DeqOpen(p, filebase)

NextRace ==
    \E p \in Procs :
        \/ \E filebase \in KnownIds : RaceDeqOpen(p, filebase)
        \/ DeqRename(p)
        \/ DeqLoad(p)

SpecRace == InitRace /\ [][NextRace]_vars

(***************************************************************************)
(* C3: when two consumers call dequeue for the same pending id, with no    *)
(* recovery pass in between, then once both calls are over exactly one of  *)
(* them has succeeded and the other has failed with a not-found error,     *)
(* however their opens, renames and reads interleave.                      *)
(***************************************************************************)
C3_ExactlyOneWinner ==
    \A p \in Procs, q \in Procs :
        (/\ p # q
         /\ pc[p] = "idle" /\ pc[q] = "idle"
         /\ res[p] # NoRes /\ res[q] # NoRes
         /\ res[p].id = res[q].id)
        => \/ res[p].status = "ok" /\ res[q].status = "notfound"
           \/ res[q].status = "ok" /\ res[p].status = "notfound"

\* both consumers had the file open, one won the rename, and the loser's
\* rename failed
C3_Witness ==
    \E p \in Procs, q \in Procs :
        /\ p # q
        /\ res[p] # NoRes /\ res[q] # NoRes
        /\ res[p].id = res[q].id
        /\ res[p].status = "ok"
        /\ res[q].status = "notfound" /\ res[q].exc = "OSError"

(***************************************************************************)
(* C4: at no time are two consumers processing the same id, each between   *)
(* its own successful dequeue of the id and its finish of it, whatever     *)
(* instances share the directory or are newly constructed with recovery.   *)
(***************************************************************************)
C4_AtMostOneProcessing ==
    \A p \in Procs, q \in Procs :
        p # q => {c.id : c \in holding[p]} \cap {c.id : c \in holding[q]} = {}

\* C4, as the code has it: no two consumers hold the same stored file unless
\* a recovery pass has restored it to pending since one of them dequeued it.
\* A recovery pass restores an in-flight file whose consumer is still at
\* work, and from then on a second consumer can dequeue and process the id.
C4_OneHolderPerFileUntilRecovered ==
    \A p \in Procs, q \in Procs :
        p # q =>
            \A c \in holding[p], e \in holding[q] :
                (c.id = e.id /\ c.ino = e.ino) => (c.undone \/ e.undone)

\* two consumers hold the same file: a recovery pass restored it while the
\* first was at work, and the second dequeued it
C4_Witness ==
    \E p \in Procs, q \in Procs :
        /\ p # q
        /\ \E c \in holding[p], e \in holding[q] :
              c.id = e.id /\ c.ino = e.ino /\ c.undone /\ ~e.undone

(***************************************************************************)
(* C5: an id that a dequeue moved to in-flight is not pending again, and   *)
(* so is in no listing of files() and open to no further dequeue, until a  *)
(* recovery pass restores it (claimed holds the ids dequeued and not yet   *)
(* restored).                                                              *)
(***************************************************************************)
C5_ClaimedNotPending == \A id \in claimed : id \notin Pending(dir)

(***************************************************************************)
(* C8: no two enqueue calls return the same id (dupIds holds the ids that  *)
(* a second call returned).                                                *)
(***************************************************************************)
C8_IdsDiffer == dupIds = {}

(***************************************************************************)
(* Steps of the directory, for the properties of single operations.        *)
(***************************************************************************)
\* this step renames the temporary file of id to its pending name
Publishes(id) ==
    /\ Exists(dir, Tmp(id)) /\ ~Exists(dir', Tmp(id))
    /\ Exists(dir', Pck(id)) /\ dir'[Pck(id)] = dir[Tmp(id)]

\* this step renames the in-flight file of id back to its pending name
Restores(id) ==
    /\ Exists(dir, Bak(id)) /\ ~Exists(dir', Bak(id))
    /\ Exists(dir', Pck(id)) /\ dir'[Pck(id)] = dir[Bak(id)]

\* this step is the end of an enqueue call of p that raises
EnqueueRaises(p) ==
    /\ pc[p] \in {"enq_flush", "enq_rename"}
    /\ pc'[p] = "idle"
    /\ dir' = dir

LiveCount(d) == Cardinality(Pending(d)) + Cardinality(InFlight(d))

(***************************************************************************)
(* C6: a pending name appears only for a file whose complete content has   *)
(* been written, flushed and synced, and when an enqueue call raises, no   *)
(* pending file of its id exists.                                          *)
(***************************************************************************)
C6_AtomicVisibility ==
    [][/\ \A id \in {n.base : n \in DOMAIN dir} :
             Publishes(id) =>
                 /\ inode[dir[Tmp(id)]].synced
                 /\ Loadable(inode[dir[Tmp(id)]].content)
       /\ \A p \in Procs :
             EnqueueRaises(p) => loc[p].filebase \notin Pending(dir')]_vars

(***************************************************************************)
(* C7: the pending file that a successful enqueue call makes visible holds *)
(* exactly the encoding which that call produced, whatever other enqueue   *)
(* calls run at the same time.                                             *)
(***************************************************************************)
C7_OwnCompleteEncoding ==
    [][\A p \in Procs :
         (pc[p] = "enq_rename" /\ pc'[p] = "idle" /\ Publishes(loc[p].filebase))
         => inode'[dir'[Pck(loc[p].filebase)]].content
              = Written(<<>>, loc[p].msgsave, loc[p].data, loc[p].protocol)]_vars

(***************************************************************************)
(* C9: when a consumer dequeued an id and crashed before finish, and a new *)
(* instance is constructed with recover=True, the id is pending again and  *)
(* its file holds the payload and the metadata that the first dequeue      *)
(* returned (orphans holds what crashed consumers had dequeued).           *)
(***************************************************************************)
C9_CrashRecovery ==
    [][\A c \in orphans :
         ((\E p \in Procs : pc[p] = "rec" /\ loc[p].ctor /\ loc'[p] # loc[p])
          /\ Restores(c.id))
         => /\ c.id \in Pending(dir')
            /\ \A order \in Orders(DOMAIN dir') :
                  c.id \in Range(Files(order, "pck", None, None))
            /\ Loadable(inode'[dir'[Pck(c.id)]].content)
            /\ Loaded(inode'[dir'[Pck(c.id)]].content) = c.got]_vars

(***************************************************************************)
(* C10: a recovery pass keeps the number of live items: the pending plus   *)
(* the in-flight items are as many after each of its renames as before.    *)
(***************************************************************************)
C10_RecoverKeepsCount ==
    [][\A id \in InFlight(dir) :
         Restores(id) => LiveCount(dir') = LiveCount(dir)]_vars

(***************************************************************************)
(* Sliced instances: the directory holds one queue file, pending or in     *)
(* flight, with any digest, and each process constructs its instance with  *)
(* any slice arguments and then lists and recovers.                        *)
(***************************************************************************)
InitSliced ==
    \E when \in 0..MaxClock, digest \in 0..shamax, ext \in {"pck", "bak"},
       in \in EnqInputs :
        /\ in[4] = when
        /\ clock = MaxClock
        /\ dir = Link(<<>>, [base |-> <<when, digest>>, ext |-> ext], 1)
        /\ inode = <<EnqueuedFile(in)>>
        /\ issued = {}
        /\ live = {<<when, digest>>}
        /\ claimed = IF ext = "bak" THEN {<<when, digest>>} ELSE {}
        /\ enqCalls = 1
        /\ crashes = 0
        /\ work = [p \in Procs |-> <<>>]
        /\ heap = Defaults
        /\ pc = [p \in Procs |-> "down"]
        /\ loc = [p \in Procs |-> NoLoc]
        /\ inst = [p \in Procs |-> NoSlices]
        /\ res = [p \in Procs |-> NoRes]
        /\ observed = Procs
        /\ holding = [p \in Procs |-> {}]
        /\ orphans = {}
        /\ dupIds = {}

NextSliced ==
    \E p \in Procs :
        \/ \E cfg \in SliceConfigs, recover \in BOOLEAN, order \in Orders(DOMAIN dir) :
              Construct(p, cfg[1], cfg[2], recover, order)
        \/ \E order \in Orders(DOMAIN dir) : ListFiles(p, order)
        \/ \E order \in Orders(DOMAIN dir) : RecStart(p, order)
        \/ RecRename(p)

SpecSliced == InitSliced /\ [][NextSliced]_vars

\* the ids that an instance with the range [lower, upper] lists
Lists(extension, lower, upper) ==
    UNION {Range(Files(order, extension, lower, upper)) : order \in Orders(DOMAIN dir)}

\* q is a divided by n, rounded down / rounded up
IsFloor(q, a, n) == q * n <= a /\ a < (q + 1) * n
IsCeil(q, a, n) == (q - 1) * n < a /\ a <= q * n

\* the inclusive range of digests of an instance; no bounds is the whole space
RangeOf(i) == IF i.lower = None THEN <<0, shamax>> ELSE <<i.lower, i.upper>>

\* the instances constructed with a slice index among 0..N-1
Sliced(p) == pc[p] # "down" /\ inst[p].slice \in 0..(inst[p].numslices - 1)

(***************************************************************************)
(* C12: for every slice count N and every pending item of the directory,   *)
(* exactly one of the N instances with slice indices 0..N-1 lists the item *)
(* in files(), and two instances of the same N with different slice        *)
(* indices list no id in common.                                           *)
(***************************************************************************)
C12_ExactlyOneSliceLists ==
    /\ \A n \in 1..MaxSlices, id \in Pending(dir) :
          Cardinality({sl \in 0..(n - 1) :
                         id \in Lists("pck", Lower(sl, n), Upper(sl, n))}) = 1
    /\ \A p \in Procs, q \in Procs :
          (/\ Sliced(p) /\ Sliced(q)
           /\ inst[p].numslices = inst[q].numslices
           /\ inst[p].slice # inst[q].slice)
          => Lists("pck", inst[p].lower, inst[p].upper)
               \cap Lists("pck", inst[q].lower, inst[q].upper) = {}

\* two instances of three slices have listed the directory: one returned
\* the pending item and the other did not
C12_Witness ==
    \E p \in Procs, q \in Procs :
        /\ Sliced(p) /\ Sliced(q)
        /\ inst[p].numslices = 3 /\ inst[q].numslices = 3
        /\ inst[p].slice # inst[q].slice
        /\ res[p].op = "files" /\ res[q].op = "files"
        /\ \E id \in Pending(dir) :
              id \in Range(res[p].list) /\ id \notin Range(res[q].list)

(***************************************************************************)
(* C13: the inclusive digest range of slice s of N is                      *)
(* [floor((H+1)*s/N), ceil((H+1)*(s+1)/N) - 1] for every N and 0 <= s < N. *)
(***************************************************************************)
C13_RangeAsStated ==
    \A p \in Procs :
        Sliced(p) =>
            /\ IsFloor(RangeOf(inst[p])[1], (shamax + 1) * inst[p].slice,
                       inst[p].numslices)
            /\ IsCeil(RangeOf(inst[p])[2] + 1, (shamax + 1) * (inst[p].slice + 1),
                      inst[p].numslices)

\* C13, as the code has it: the range of slice s of N is
\* [floor((H+1)*s/N), floor((H+1)*(s+1)/N) - 1]: both ends are rounded down,
\* so that a range ends just below the start of the next one.
C13_RangeRoundedDown ==
    \A p \in Procs :
        Sliced(p) =>
            /\ IsFloor(RangeOf(inst[p])[1], (shamax + 1) * inst[p].slice,
                       inst[p].numslices)
            /\ IsFloor(RangeOf(inst[p])[2] + 1, (shamax + 1) * (inst[p].slice + 1),
                       inst[p].numslices)

\* an instance of slice 0 of 3, a slice count that does not divide H+1
C13_Witness ==
    \E p \in Procs :
        Sliced(p) /\ inst[p].numslices = 3 /\ inst[p].slice = 0 /\ inst[p].upper = 9

(***************************************************************************)
(* C14: an instance constructed with one slice, whatever its slice index,  *)
(* lists every pending item in files() and every in-flight item in the     *)
(* listing that recover_backup_files works on.                             *)
(***************************************************************************)
C14_OneSliceListsAll ==
    \A p \in Procs :
        (pc[p] # "down" /\ inst[p].numslices = 1)
        => /\ Lists("pck", inst[p].lower, inst[p].upper) = Pending(dir)
           /\ Lists("bak", inst[p].lower, inst[p].upper) = InFlight(dir)
           /\ \A order \in Orders(DOMAIN dir) :
                 /\ Range(Files(order, "pck", inst[p].lower, inst[p].upper)) = Pending(dir)
                 /\ Range(Files(order, "bak", inst[p].lower, inst[p].upper)) = InFlight(dir)

\* an instance constructed with slice index 1 and one slice has listed a
\* pending item whose digest is 0
C14_Witness ==
    \E p \in Procs :
        /\ pc[p] = "idle" /\ inst[p].numslices = 1 /\ inst[p].slice = 1
        /\ res[p].op = "files"
        /\ \E id \in Pending(dir) : id[2] = 0 /\ id \in Range(res[p].list)

\* this step is one of the recovery pass of process p
RecoverStep(p) == pc[p] = "rec" /\ loc'[p] # loc[p]

(***************************************************************************)
(* C15: a step of recover_backup_files of an instance changes only         *)
(* in-flight files whose digest lies in the slice of the instance: the     *)
(* in-flight files of other slices, all pending files and all temporary    *)
(* files keep their names and their content.                               *)
(***************************************************************************)
C15_RecoverTouchesOnlyItsSlice ==
    [][\A p \in Procs :
         RecoverStep(p) =>
             /\ inode' = inode
             /\ \A n \in DOMAIN dir :
                   (n.ext \in {"pck", "tmp"}
                      \/ ~InSlice(inst[p].lower, inst[p].upper, n.base[2]))
                   => (n \in DOMAIN dir' /\ dir'[n] = dir[n])]_vars

(***************************************************************************)
(* Consumers on a directory that producers have left: it holds a complete  *)
(* queue file, or a truncated one (as an enqueue call leaves it behind     *)
(* whose temporary file another call has opened), or both, each pending or *)
(* in flight.  Both processes dequeue, finish and recover, and what their  *)
(* calls return or raise is recorded.                                      *)
(***************************************************************************)
GoodInput == <<"m1", [listname |-> "a"], EmptyDict, 0>>
BadInput == <<"m1", [listname |-> "a"], EmptyDict, MaxClock>>

\* an id that no enqueue call has returned
NeverEnqueued == <<MaxClock + 1, 0>>

InitConsume ==
    \E good \in {"none", "pck", "bak"}, bad \in {"none", "pck", "bak"} :
        LET goodName == [base |-> EnqueuedId(GoodInput), ext |-> good]
            badName == [base |-> EnqueuedId(BadInput), ext |-> bad]
            d1 == IF good = "none" THEN <<>> ELSE Link(<<>>, goodName, 1)
            d2 == IF bad = "none" THEN d1 ELSE Link(d1, badName, 2)
        IN  /\ good # "none" \/ bad # "none"
            /\ clock = MaxClock
            /\ dir = d2
            /\ inode = <<EnqueuedFile(GoodInput), EmptyFile>>
            /\ issued = {EnqueuedRecord(GoodInput), EnqueuedRecord(BadInput)}
            /\ live = {n.base : n \in DOMAIN d2}
            /\ claimed = {n.base : n \in {x \in DOMAIN d2 : x.ext = "bak"}}
            /\ enqCalls = 2
            /\ crashes = 0
            /\ work = [p \in Procs |-> <<>>]
            /\ heap = Defaults
            /\ pc = [p \in Procs |-> "idle"]
            /\ loc = [p \in Procs |-> NoLoc]
            /\ inst = [p \in Procs |-> NoSlices]
            /\ res = [p \in Procs |-> NoRes]
            /\ observed = Procs
            /\ holding = [p \in Procs |-> {}]
            /\ orphans = {}
            /\ dupIds = {}

NextConsume ==
    \E p \in Procs :
        \/ \E filebase \in KnownIds \cup {NeverEnqueued} : DeqOpen(p, filebase)
        \/ DeqRename(p)
        \/ DeqLoad(p)
        \/ \E filebase \in KnownIds \cup {NeverEnqueued}, denied \in BOOLEAN :
              Finish(p, filebase, denied)
        \/ \E order \in Orders(DOMAIN dir) : RecStart(p, order)
        \/ RecRename(p)

SpecConsume == InitConsume /\ [][NextConsume]_vars

\* this step ends a call of p with a new result
Returns(p, op) == res'[p] # res[p] /\ res'[p].op = op

(***************************************************************************)
(* C16: a dequeue call for an id that has no pending file (never enqueued, *)
(* in flight, or retired) raises a not-found error and changes nothing:    *)
(* the call passes its open and its rename only when the pending file      *)
(* exists, and the step that raises the error finds no pending file and    *)
(* leaves the directory, the files and what the consumers hold as they     *)
(* are.                                                                    *)
(***************************************************************************)
C16_DequeueNotFound ==
    [][\A p \in Procs :
         /\ (pc[p] = "idle" /\ pc'[p] = "deq_rename")
            => Exists(dir, Pck(loc'[p].filebase))
         /\ (pc[p] = "deq_rename" /\ pc'[p] = "deq_load")
            => Exists(dir, Pck(loc[p].filebase))
         /\ (Returns(p, "dequeue") /\ res'[p].status = "notfound")
            => /\ ~Exists(dir, Pck(res'[p].id))
               /\ dir' = dir /\ inode' = inode /\ holding' = holding]_vars

\* a dequeue of an id that is in flight has raised IOError
C16_Witness ==
    \E p \in Procs :
        /\ res[p].op = "dequeue" /\ res[p].status = "notfound"
        /\ res[p].exc = "IOError"
        /\ res[p].id \in InFlight(dir) /\ res[p].id \notin Pending(dir)

(***************************************************************************)
(* C17: a finish call for an id that has no in-flight file fails, and the  *)
(* failure reaches the caller.                                             *)
(***************************************************************************)
C17_FinishMissingRaises ==
    \A p \in Procs :
        (res[p].op = "finish" /\ ~res[p].found) => res[p].status = "error"

\* C17, as the code has it: a finish call for an id that has no in-flight
\* file logs the failed unlink and returns normally.
C17_FinishMissingReturns ==
    \A p \in Procs :
        (res[p].op = "finish" /\ ~res[p].found)
        => (res[p].status = "ok" /\ res[p].logged)

\* finish was called for an id that was never enqueued
C17_Witness ==
    \E p \in Procs :
        res[p].op = "finish" /\ ~res[p].found /\ res[p].id = NeverEnqueued

C19_DecodeFailureLeavesInFlight ==
    [][\A p \in Procs :
         (pc[p] = "deq_load" /\ pc'[p] = "idle"
            /\ ~Loadable(inode[loc[p].fd].content))
         => /\ res'[p].op = "dequeue" /\ res'[p].status = "corrupt"
            /\ dir' = dir /\ inode' = inode /\ holding' = holding
            /\ (loc[p].filebase \in claimed /\ loc[p].filebase \in live)
               => (loc[p].filebase \in InFlight(dir')
                     /\ loc[p].filebase \notin Pending(dir'))]_vars

\* a dequeue has raised the decoding error and the file is in flight
C19_Witness ==
    \E p \in Procs :
        /\ res[p].op = "dequeue" /\ res[p].status = "corrupt"
        /\ res[p].id \in InFlight(dir) /\ res[p].id \notin Pending(dir)

\* the ids whose queue file does not decode
CorruptIds ==
    {n.base : n \in {x \in DOMAIN dir : x.ext \in {"pck", "bak"}
                                          /\ ~Loadable(inode[dir[x]].content)}}

(***************************************************************************)
(* C20: no step of recovery or dequeue drops or changes a queue file that  *)
(* does not decode: until a finish deletes it the file is pending or in    *)
(* flight with the content it had, a recovery pass restores it as it is,   *)
(* and no dequeue of its id returns an item.                               *)
(***************************************************************************)
C20_CorruptItemKept ==
    [][\A id \in CorruptIds :
         /\ inode' = inode
         /\ id \in live'
            => \E n \in DOMAIN dir, m \in DOMAIN dir' :
                  /\ n.base = id /\ m.base = id
                  /\ n.ext \in {"pck", "bak"} /\ m.ext \in {"pck", "bak"}
                  /\ dir'[m] = dir[n]
         /\ Restores(id) => id \in Pending(dir')
         /\ \A p \in Procs :
               (res'[p].op = "dequeue" /\ res'[p].id = id)
               => res'[p].status \in {"corrupt", "notfound"}]_vars

\* two dequeues of the same id have raised the decoding error, the second
\* after a recovery pass, and the file is in flight again
C20_Witness ==
    \E p \in Procs, q \in Procs :
        /\ p # q
        /\ res[p].op = "dequeue" /\ res[p].status = "corrupt"
        /\ res[q].op = "dequeue" /\ res[q].status = "corrupt"
        /\ res[p].id = res[q].id
        /\ res[p].id \in InFlight(dir)

(***************************************************************************)
(* One consumer loop per slice, on a directory that producers have left.   *)
(* The queue is cut in as many slices as there are processes and process   *)
(* i runs the loop of slice i: it lists files(), and for each listed id it *)
(* calls dequeue, processes the item and calls finish; an id whose dequeue *)
(* raises is skipped.  A process may crash anywhere, at most MaxCrash      *)
(* times in all, and every start constructs the instance with recover set. *)
(* The directory holds one item of each slice, pending or in flight; the   *)
(* item of the last slice sits at one edge of the slice and may be one     *)
(* that does not decode.                                                   *)
(***************************************************************************)
SliceOf(p) == IF p = "p1" THEN 0 ELSE 1
NumLoops == Cardinality(Procs)

\* the ids of the items of InitLive
LiveIds ==
    {EnqueuedId(GoodInput)} \cup
    {<<MaxClock, digest>> : digest \in {Lower(1, NumLoops), shamax}}

InitLive ==
    \E first \in {"pck", "bak"}, second \in {"pck", "bak"},
       digest \in {Lower(1, NumLoops), shamax}, decodes \in BOOLEAN :
        LET firstId == EnqueuedId(GoodInput)
            secondId == <<MaxClock, digest>>
            d == Link(Link(<<>>, [base |-> firstId, ext |-> first], 1),
                      [base |-> secondId, ext |-> second], 2)
            files == <<EnqueuedFile(GoodInput),
                       IF decodes THEN EnqueuedFile(BadInput) ELSE EmptyFile>>
            inFlight == {n \in DOMAIN d : n.ext = "bak"}
        IN  /\ clock = MaxClock
            /\ dir = d
            /\ inode = files
            /\ issued = {EnqueuedRecord(GoodInput),
                         [EnqueuedRecord(BadInput) EXCEPT !.id = secondId]}
            /\ live = {firstId, secondId}
            /\ claimed = {n.base : n \in inFlight}
            /\ orphans = {}
            /\ enqCalls = 2
            /\ crashes = 0
            /\ work = [p \in Procs |-> <<>>]
            /\ heap = Defaults
            /\ pc = [p \in Procs |-> "down"]
            /\ loc = [p \in Procs |-> NoLoc]
            /\ inst = [p \in Procs |-> NoSlices]
            /\ res = [p \in Procs |-> NoRes]
            /\ observed = Procs
            /\ holding = [p \in Procs |-> {}]
            /\ dupIds = {}

\* the loop has no id left and lists the pending ids of its slice; a listing
\* that is empty leaves it where it is
LoopList(p, order) ==
    /\ pc[p] = "idle"
    /\ work[p] = <<>>
    /\ Files(order, "pck", inst[p].lower, inst[p].upper) # <<>>
    /\ work' = [work EXCEPT ![p] =
                   Files(order, "pck", inst[p].lower, inst[p].upper)]
    /\ res' = [res EXCEPT ![p] = NoRes]
    /\ UNCHANGED <<heap, clock, dir, inode, pc, loc, inst, observed, holding,
                   orphans, issued, dupIds, live, claimed, enqCalls, crashes>>

\* the last call of the loop of p was one for the id its listing starts with
Called(p, op) ==
    /\ work[p] # <<>>
    /\ res[p].op = op
    /\ res[p].id = Head(work[p])

\* the loop calls dequeue for the next id of its listing
LoopDequeue(p) ==
    /\ work[p] # <<>>
    /\ ~Called(p, "dequeue") /\ ~Called(p, "finish")
    /\ DeqOpen(p, Head(work[p]))

\* the loop has processed the item that dequeue returned and calls finish
LoopFinish(p, denied) ==
    /\ Called(p, "dequeue") /\ res[p].status = "ok"
    /\ Finish(p, Head(work[p]), denied)

\* the loop goes on to the next id, after finish has returned or dequeue
\* has raised
LoopNext(p) ==
    /\ pc[p] = "idle"
    /\ \/ Called(p, "finish")
       \/ Called(p, "dequeue") /\ res[p].status # "ok"
    /\ work' = [work EXCEPT ![p] = Tail(@)]
    /\ UNCHANGED <<heap, clock, dir, inode, pc, loc, inst, res, observed, holding,
                   orphans, issued, dupIds, live, claimed, enqCalls, crashes>>

\* the process of a slice is started: Switchboard(whichq, slice, numslices, True)
Restart(p, order) == Construct(p, SliceOf(p), NumLoops, TRUE, order)

CrashLive(p) == crashes < MaxCrash /\ Crash(p)

\* the steps of a running process
LoopStep(p) ==
    \/ \E order \in Orders(DOMAIN dir) : LoopList(p, order)
    \/ LoopDequeue(p)
    \/ DeqRename(p)
    \/ DeqLoad(p)
    \/ \E denied \in BOOLEAN : LoopFinish(p, denied)
    \/ LoopNext(p)
    \/ RecRename(p)

Restarts(p) == \E order \in Orders(DOMAIN dir) : Restart(p, order)

NextLive ==
    \E p \in Procs :
        \/ LoopStep(p)
        \/ Restarts(p)
        \/ CrashLive(p)

\* fair scheduling: a process that can take a step of its loop takes one, and
\* a process that is down is started again
SpecLive ==
    /\ InitLive
    /\ [][NextLive]_vars
    /\ \A p \in Procs : WF_vars(LoopStep(p)) /\ WF_vars(Restarts(p))

\* the queue file of id holds an item that decodes
Decodable(id) ==
    \E n \in DOMAIN dir :
        /\ n.base = id /\ n.ext \in {"pck", "bak"}
        /\ Loadable(inode[dir[n]].content)

\* the last call of a loop was a finish for id that found the in-flight file
\* and did not delete it
DeleteFailed(id) ==
    \E p \in Procs :
        /\ res[p].op = "finish" /\ res[p].id = id
        /\ res[p].logged /\ res[p].found

\* a consumer crashed after dequeue returned id and before it called finish
Orphaned(id) == \E c \in orphans : c.id = id

\* a consumer processes id: dequeue has returned it and finish was not called
Processing(id) == \E p \in Procs : \E c \in holding[p] : c.id = id

Lister == "p1"

ListTimes == 0..DELTA
ListDigests == {0, (shamax + 1) \div 2, shamax}

\* names like '0+0.pck', '0+1f.bak', '1+10.pck.tmp'
QueueNames ==
    {[base |-> <<when, digest>>, ext |-> ext] :
        when \in ListTimes, digest \in ListDigests, ext \in {"pck", "bak", "tmp"}}

\* names like 'README.pck' and '0+0+0.bak'
ForeignNames ==
    {[base |-> base, ext |-> ext] :
        base \in {<<0>>, <<0, 0, 0>>}, ext \in {"pck", "bak"}}

InitListing ==
    \E picked \in [1..MaxFiles -> QueueNames \cup ForeignNames] :
      LET names == Range(picked) IN
        /\ clock = MaxClock
        /\ dir = (CHOOSE f \in [names -> 1..MaxFiles] :
                     \A m \in names, n \in names : f[m] = f[n] => m = n)
        /\ inode = [i \in 1..MaxFiles |-> EnqueuedFile(GoodInput)]
        /\ issued = {}
        /\ live = {n.base : n \in {x \in names \cap QueueNames : x.ext \in {"pck", "bak"}}}
        /\ claimed = {n.base : n \in {x \in names \cap QueueNames : x.ext = "bak"}}
        /\ enqCalls = 0
        /\ crashes = 0
        /\ work = [p \in Procs |-> <<>>]
        /\ heap = Defaults
        /\ pc = [p \in Procs |-> "down"]
        /\ loc = [p \in Procs |-> NoLoc]
        /\ inst = [p \in Procs |-> NoSlices]
        /\ res = [p \in Procs |-> NoRes]
        /\ observed = Procs
        /\ holding = [p \in Procs |-> {}]
        /\ orphans = {}
        /\ dupIds = {}

NextListing ==
    \/ \E cfg \in SliceConfigs, order \in Orders(DOMAIN dir) :
          Construct(Lister, cfg[1], cfg[2], FALSE, order)
    \/ \E order \in Orders(DOMAIN dir) : ListFiles(Lister, order)

SpecListing == InitListing /\ [][NextListing]_vars

\* the last call of p was files() and it returned a list
Listed(p) == res[p].op = "files" /\ res[p].status = "ok"

\* the ids of the names with the extension that split and lie in the slice of p
InShard(p, extension) ==
    {n.base : n \in {x \in DOMAIN dir :
                        /\ x.ext = extension
                        /\ Splits(x.base)
                        /\ InSlice(inst[p].lower, inst[p].upper, x.base[2])}}

(***************************************************************************)
(* C21: in a list that files() returned, an item whose received time is    *)
(* strictly smaller than that of another item stands before it.            *)
(***************************************************************************)
C21_ArrivalOrder ==
    \A p \in Procs :
        Listed(p) =>
            \A i \in DOMAIN res[p].list, j \in DOMAIN res[p].list :
                res[p].list[i][1] < res[p].list[j][1] => i < j

(***************************************************************************)
(* C22: unless it raises, files(ext) returns each id of the directory that *)
(* has the extension and lies in the slice of the instance exactly once,   *)
(* and nothing else, in whatever order the directory hands over the names. *)
(***************************************************************************)
C22_EachEntryOnce ==
    \A p \in Procs :
        pc[p] # "down" =>
            \A extension \in {"pck", "bak"}, order \in Orders(DOMAIN dir) :
                ~FilesRaises(order, extension) =>
                    LET list == Files(order, extension, inst[p].lower, inst[p].upper)
                    IN  /\ Range(list) = InShard(p, extension)
                        /\ Len(list) = Cardinality(InShard(p, extension))

\* files() returned three ids: two of the same received time and one whose
\* received time is DELTA later, the key that the tie-break gives the second
C22_Witness ==
    \E p \in Procs :
        /\ Listed(p)
        /\ Len(res[p].list) = MaxFiles
        /\ \E i, j, k \in DOMAIN res[p].list :
              /\ i # j
              /\ res[p].list[i][1] = res[p].list[j][1]
              /\ res[p].list[k][1] = res[p].list[i][1] + DELTA

(***************************************************************************)
(* C23: files() does not fail on a name that carries the extension and     *)
(* does not parse: it returns the ids of all the names that do parse and   *)
(* lie in the slice.                                                       *)
(***************************************************************************)
C23_ForeignNamesIgnored ==
    \A p \in Procs :
        res[p].op = "files" =>
            /\ res[p].status = "ok"
            /\ Range(res[p].list) = InShard(p, "pck")

(***************************************************************************)
(* Listing next to a working process: one process enqueues, dequeues and   *)
(* finishes on an empty directory while the other one calls files(), whose *)
(* results are recorded.                                                   *)
(***************************************************************************)
Worker == "p1"
Watcher == "p2"

InitWatched ==
    /\ clock = 0
    /\ dir = <<>>
    /\ inode = <<>>
    /\ pc = [p \in Procs |-> "idle"]
    /\ loc = [p \in Procs |-> NoLoc]
    /\ inst = [p \in Procs |-> NoSlices]
    /\ res = [p \in Procs |-> NoRes]
    /\ observed = {Watcher}
    /\ holding = [p \in Procs |-> {}]
    /\ orphans = {}
    /\ issued = {}
    /\ dupIds = {}
    /\ live = {}
    /\ claimed = {}
    /\ enqCalls = 0
    /\ crashes = 0
    /\ work = [p \in Procs |-> <<>>]
    /\ heap = Defaults

NextWatched ==
    \/ \E msg \in Payloads, metadata \in Metadatas, kws \in Keywords,
          now \in 0..MaxClock :
          EnqOpen(Worker, msg, metadata, kws, now)
    \/ EnqFlush(Worker)
    \/ EnqRename(Worker)
    \/ \E filebase \in KnownIds : DeqOpen(Worker, filebase)
    \/ DeqRename(Worker)
    \/ DeqLoad(Worker)
    \/ \E filebase \in KnownIds, denied \in BOOLEAN : Finish(Worker, filebase, denied)
    \/ \E order \in Orders(DOMAIN dir) : ListFiles(Watcher, order)

SpecWatched == InitWatched /\ [][NextWatched]_vars

(***************************************************************************)
(* C24: every call of files() returns exactly the ids that have a pending  *)
(* file in the directory at the time of the call: no id that is only in    *)
(* flight, no id that has only its temporary file, and no id that enqueue  *)
(* returned and that has no pending file any more, whatever enqueue,       *)
(* dequeue and finish have done before the call.                           *)
(***************************************************************************)
C24_ListsPendingOnly ==
    [][\A p \in Procs :
         Returns(p, "files") =>
             /\ res'[p].status = "ok"
             /\ Range(res'[p].list) = Pending(dir)
             /\ \A n \in DOMAIN dir :
                   (n.ext \in {"bak", "tmp"} /\ ~Exists(dir, Pck(n.base)))
                   => n.base \notin Range(res'[p].list)
             /\ \A r \in issued :
                   ~Exists(dir, Pck(r.id)) => r.id \notin Range(res'[p].list)]_vars

\* files() has returned the later of two enqueued ids alone, and the earlier
\* one is in flight
C24_Witness ==
    \E p \in Procs :
        /\ Listed(p)
        /\ Len(res[p].list) = 1
        /\ Range(res[p].list) = Pending(dir)
        /\ \E id \in InFlight(dir) : id[1] < res[p].list[1][1]

(***************************************************************************)
(* Round trips.  An enqueue call with any payload, metadata and keywords   *)
(* of the sets below has returned at any time of the clock; the processes  *)
(* list, dequeue, finish, and enqueue again what a dequeue returned to     *)
(* them, at the same or at a later time.  The first call is kept in        *)
(* `issued` with its arguments.                                            *)
(***************************************************************************)
TripMetadatas ==
    { EmptyDict,
      [listname |-> "a"],
      [listname |-> "a", recips |-> "r", _private |-> "x"],
      [listname |-> "a", _plaintext |-> TRUE],
      [listname |-> "a", version |-> QFILE_SCHEMA_VERSION - 1, received_time |-> 0] }
TripKeywords ==
    { EmptyDict,
      [recips |-> "k"],
      [_plaintext |-> TRUE] }
TripInputs == Msgs \X TripMetadatas \X TripKeywords \X (0..MaxClock)

\* enqueue(in[1], in[2], **in[3]) when time.time() is in[4], and what it stored
FirstCall(in) ==
    [id |-> EnqueuedId(in), msgsave |-> EnqMsgsave(in[1], EnqData0(in[2], in[3])),
     data |-> EnqStored(EnqData0(in[2], in[3]), in[4]),
     protocol |-> EnqProtocol(EnqData0(in[2], in[3])),
     msg |-> in[1], metadata |-> EnqData0(in[2], in[3]), now |-> in[4]]

InitTrip ==
    \E in \in TripInputs :
        /\ clock = in[4]
        /\ dir = Link(<<>>, Pck(EnqueuedId(in)), 1)
        /\ inode = <<EnqueuedFile(in)>>
        /\ issued = {FirstCall(in)}
        /\ live = {EnqueuedId(in)}
        /\ claimed = {}
        /\ enqCalls = 1
        /\ crashes = 0
        /\ work = [p \in Procs |-> <<>>]
        /\ heap = Defaults
        /\ pc = [p \in Procs |-> "idle"]
        /\ loc = [p \in Procs |-> NoLoc]
        /\ inst = [p \in Procs |-> NoSlices]
        /\ res = [p \in Procs |-> NoRes]
        /\ observed = Procs
        /\ holding = [p \in Procs |-> {}]
        /\ orphans = {}
        /\ dupIds = {}

\* enqueue(msg, data) with what a dequeue returned to p
EnqAgain(p, now) ==
    \E c \in holding[p] : EnqOpen(p, c.got.msg, c.got.data, EmptyDict, now)

NextTrip ==
    \E p \in Procs :
        \/ \E order \in Orders(DOMAIN dir) : ListFiles(p, order)
        \/ \E filebase \in KnownIds : DeqOpen(p, filebase)
        \/ DeqRename(p)
        \/ DeqLoad(p)
        \/ \E filebase \in KnownIds : Finish(p, filebase, FALSE)
        \/ \E now \in 0..MaxClock : EnqAgain(p, now)
        \/ EnqFlush(p)
        \/ EnqRename(p)

SpecTrip == InitTrip /\ [][NextTrip]_vars

\* the first enqueue call, with its arguments
First == CHOOSE r \in issued : "metadata" \in DOMAIN r

\* the metadata of the queue files of the directory that decode
StoredData ==
    {inode[dir[n]].content[2].obj :
        n \in {x \in DOMAIN dir : x.ext \in {"pck", "bak"}
                                    /\ Loadable(inode[dir[x]].content)}}

\* the metadata that dequeue has returned to the processes
ReturnedData ==
    {res[p].got.data :
        p \in {q \in Procs : res[q].op = "dequeue" /\ res[q].status = "ok"}}

\* data is the metadata of the first call without its private keys, with the
\* schema version and the received time, and with the keys `extra` besides
Augmented(data, extra) ==
    /\ DOMAIN data =
          ((DOMAIN First.metadata) \ PrivateKeys)
            \cup {"version", "received_time"} \cup extra
    /\ \A k \in (DOMAIN First.metadata) \ (PrivateKeys \cup {"version", "received_time"}) :
          data[k] = First.metadata[k]
    /\ data["version"] = QFILE_SCHEMA_VERSION
    /\ data["received_time"] = Get(First.metadata, "received_time", First.now)

\* this step returns to p what dequeue read for the id of the first call
ReturnsFirst(p) ==
    /\ Returns(p, "dequeue")
    /\ res'[p].status = "ok"
    /\ res'[p].id = First.id

C27_ReceivedTimeKept ==
    /\ First.id[1] = Get(First.metadata, "received_time", First.now)
    /\ \A n \in DOMAIN dir : n.base[1] = First.id[1]
    /\ \A data \in StoredData : data["received_time"] = First.id[1]

\* an item was enqueued again at a later time than its received time, and the
\* new queue file is in the directory
C27_Witness ==
    /\ clock > First.id[1]
    /\ \E r \in issued : r # First /\ r.id # First.id /\ Exists(dir, Pck(r.id))

(***************************************************************************)
(* C29: the metadata of every queue file carries the configured schema     *)
(* version, whatever version the metadata passed to enqueue carried.       *)
(***************************************************************************)
C29_VersionStamped ==
    \A data \in StoredData :
        "version" \in DOMAIN data /\ data["version"] = QFILE_SCHEMA_VERSION

\* the caller passed metadata of another schema version, and the item was
\* dequeued and enqueued again
C29_Witness ==
    /\ "version" \in DOMAIN First.metadata
    /\ First.metadata["version"] # QFILE_SCHEMA_VERSION
    /\ \E r \in issued : r # First /\ Exists(dir, Pck(r.id))
    /\ StoredData # {}

\* this step is a finish call of p for id, which p holds as its dequeue left
\* it, and the call deletes the in-flight file
FinishesHeld(p, id) ==
    /\ pc[p] = "idle" /\ pc'[p] = "idle"
    /\ \E c \in holding[p] : c.id = id /\ ~c.undone
    /\ \A c \in holding'[p] : c.id # id
    /\ Exists(dir, Bak(id)) /\ ~Exists(dir', Bak(id))

(***************************************************************************)
(* C28: a finish call for an id that the caller has dequeued, and whose    *)
(* delete succeeds, leaves neither a pending nor an in-flight file of the  *)
(* id and leaves every file of another id as it was.                       *)
(***************************************************************************)
C28_FinishLeavesNothing ==
    [][\A p \in Procs : \A id \in InFlight(dir) :
         FinishesHeld(p, id) =>
             /\ id \notin Pending(dir') /\ id \notin InFlight(dir')
             /\ inode' = inode
             /\ \A n \in DOMAIN dir :
                   n.base # id => (n \in DOMAIN dir' /\ dir'[n] = dir[n])
             /\ \A n \in DOMAIN dir' : n.base # id => n \in DOMAIN dir]_vars

(***************************************************************************)
(* C30: dequeue renames the pending file to the in-flight name before it   *)
(* reads: the step that reads and decodes, or fails to, comes after the    *)
(* rename of the same call, the rename reads nothing and leaves the file   *)
(* in flight, where the reading call finds it unless a recovery pass or a  *)
(* finish has moved it since; and a call that does not find the pending    *)
(* file creates no in-flight file.                                         *)
(***************************************************************************)
C30_RenameBeforeRead ==
    [][\A p \in Procs :
         /\ (Returns(p, "dequeue") /\ res'[p].status \in {"ok", "corrupt"})
            => (pc[p] = "deq_load" /\ "moved" \in DOMAIN loc[p])
         /\ (pc[p] = "deq_rename" /\ pc'[p] = "deq_load")
            => /\ Exists(dir', Bak(loc[p].filebase))
               /\ dir'[Bak(loc[p].filebase)] = dir[Pck(loc[p].filebase)]
               /\ ~Exists(dir', Pck(loc[p].filebase))
               /\ res'[p] = res[p]
         /\ (pc[p] = "deq_load" /\ ~loc[p].undone /\ loc[p].filebase \in live)
            => /\ Exists(dir, Bak(loc[p].filebase))
               /\ dir[Bak(loc[p].filebase)] = loc[p].moved
         /\ (Returns(p, "dequeue") /\ res'[p].status = "notfound")
            => InFlight(dir') = InFlight(dir)]_vars

\* a dequeue call has renamed a file that does not decode and has not read it
\* yet: the file is in flight
C30_Witness ==
    \E p \in Procs :
        /\ pc[p] = "deq_load"
        /\ ~Loadable(inode[loc[p].fd].content)
        /\ Exists(dir, Bak(loc[p].filebase))
        /\ dir[Bak(loc[p].filebase)] = loc[p].fd

(***************************************************************************)
(* The arguments of enqueue.  A producer calls enqueue on an empty         *)
(* directory with a mapping object of its own or with the default of the   *)
(* parameter, and with keyword arguments; it keeps its mapping object      *)
(* between the calls.  A consumer dequeues what the producer published.    *)
(***************************************************************************)
Producer == "p1"
Consumer == "p2"

\* the mapping objects of the callers
ArgMetadatas ==
    { [listname |-> "a"],
      [listname |-> "a", _plaintext |-> TRUE],
      [listname |-> "a", _parsemsg |-> TRUE],
      [listname |-> "a", _plaintext |-> TRUE, _parsemsg |-> FALSE],
      [listname |-> "a", recips |-> "r", received_time |-> 0,
       version |-> QFILE_SCHEMA_VERSION - 1] }

\* the keyword arguments of the callers
ArgKeywords ==
    { EmptyDict,
      [_plaintext |-> TRUE],
      [_plaintext |-> FALSE],
      [listname |-> "--nolist--", recips |-> "k", received_time |-> MaxClock,
       version |-> QFILE_SCHEMA_VERSION - 2] }

InitArgs ==
    \E metadata \in ArgMetadatas :
        /\ clock = 0
        /\ dir = <<>>
        /\ inode = <<>>
        /\ pc = [p \in Procs |-> "idle"]
        /\ loc = [p \in Procs |-> NoLoc]
        /\ inst = [p \in Procs |-> NoSlices]
        /\ res = [p \in Procs |-> NoRes]
        /\ observed = Procs
        /\ holding = [p \in Procs |-> {}]
        /\ orphans = {}
        /\ issued = {}
        /\ dupIds = {}
        /\ live = {}
        /\ claimed = {}
        /\ enqCalls = 0
        /\ crashes = 0
        /\ work = [p \in Procs |-> <<>>]
        /\ heap = [default |-> EmptyDict, caller |-> metadata]

NextArgs ==
    \/ \E msg \in Msgs, ref \in DOMAIN heap, kws \in ArgKeywords,
          now \in 0..MaxClock :
          EnqOpenRef(Producer, msg, ref, kws, now)
    \/ EnqFlush(Producer)
    \/ EnqRename(Producer)
    \/ \E filebase \in KnownIds : DeqOpen(Consumer, filebase)
    \/ DeqRename(Consumer)
    \/ DeqLoad(Consumer)

SpecArgs == InitArgs /\ [][NextArgs]_vars

\* this step is the start of an enqueue call of p: its arguments and what it
\* computed from them are in loc'[p]
Enqueues(p) == pc[p] = "idle" /\ pc'[p] = "enq_flush"

\* the metadata of a call: its mapping with its keyword arguments
Merged(args) == Update(args.metadata, args.kws)

(***************************************************************************)
(* C31: the encoding of the payload and the stored flag agree.  enqueue    *)
(* stores the payload as text exactly when the metadata of the call        *)
(* (mapping and keywords) has a true _plaintext entry, or pickling is      *)
(* disabled, and it stores _parsemsg as true exactly then, whatever        *)
(* _parsemsg the caller passed; the file it flushes holds that payload     *)
(* segment and that flag; and dequeue, which parses the payload exactly    *)
(* when the flag of the file is true, returns the message that was         *)
(* enqueued, never its text.                                               *)
(***************************************************************************)
C31_EncodingAndFlagAgree ==
    [][\A p \in Procs :
         /\ Enqueues(p) =>
              LET args == loc'[p].args
                  plain == ~SAVE_MSGS_AS_PICKLES
                             \/ Get(Merged(args), "_plaintext", FALSE)
              IN  /\ "_parsemsg" \in DOMAIN loc'[p].data
                  /\ loc'[p].data["_parsemsg"] = plain
                  /\ loc'[p].msgsave = IF plain THEN PickleMsg(Str(args.msg), 0)
                                               ELSE PickleMsg(args.msg, 1)
         /\ (pc[p] = "enq_flush" /\ pc'[p] = "enq_rename") =>
              inode'[loc[p].fd].content =
                  <<loc[p].msgsave, PickleData(loc[p].data, loc[p].protocol)>>
         /\ (Returns(p, "dequeue") /\ res'[p].status = "ok") =>
              LET content == inode[loc[p].fd].content
              IN  /\ "_parsemsg" \in DOMAIN content[2].obj
                  /\ content[2].obj["_parsemsg"] = (content[1].proto = 0)
                  /\ res'[p].got.msg \in Msgs
                  /\ \E r \in issued :
                        /\ r.id = res'[p].id
                        /\ r.msgsave = IF r.protocol = 1
                                       THEN PickleMsg(res'[p].got.msg, 1)
                                       ELSE PickleMsg(Str(res'[p].got.msg), 0)]_vars

\* the consumer got back a message that was stored as text, and the producer
\* is in a call whose caller passed _parsemsg as true and no _plaintext, for
\* which the flag it stores is false
C31_Witness ==
    /\ res[Consumer].op = "dequeue" /\ res[Consumer].status = "ok"
    /\ res[Consumer].got.data["_parsemsg"]
    /\ res[Consumer].got.msg \in Msgs
    /\ pc[Producer] = "enq_rename"
    /\ Get(Merged(loc[Producer].args), "_parsemsg", FALSE)
    /\ ~Get(Merged(loc[Producer].args), "_plaintext", FALSE)
    /\ ~loc[Producer].data["_parsemsg"]

(***************************************************************************)
(* C38: enqueue never modifies a mapping object it is passed, nor the      *)
(* default of its parameter: no step of a call changes them, the default   *)
(* stays empty, and a call whose mapping and keywords carry no             *)
(* received_time stores its own reading of the clock, so that two calls    *)
(* with the same mapping object each get their own.                        *)
(***************************************************************************)
C38_MappingNotModified ==
    [][/\ heap' = heap
       /\ heap'["default"] = EmptyDict
       /\ \A p \in Procs :
            (Enqueues(p) /\ "received_time" \notin DOMAIN Merged(loc'[p].args)) =>
                /\ loc'[p].data["received_time"] = loc'[p].args.now
                /\ loc'[p].filebase[1] = loc'[p].args.now
                /\ loc'[p].args.now = clock']_vars

\* two calls with the caller's mapping object, which never had a
\* received_time, have returned, one with the time 0 and one with a later time
C38_Witness ==
    /\ "received_time" \notin DOMAIN heap["caller"]
    /\ \E r1 \in issued, r2 \in issued :
          /\ Get(r1.data, "listname", "--nolist--") = "a"
          /\ Get(r2.data, "listname", "--nolist--") = "a"
          /\ r1.data["received_time"] = 0
          /\ r2.data["received_time"] > 0
          /\ r1.id[1] = 0 /\ r2.id[1] > 0

\* the list name and the received time that a call takes from its arguments:
\* the keyword argument before the entry of the mapping
ArgListname(args) ==
    Get(args.kws, "listname", Get(args.metadata, "listname", "--nolist--"))
ArgRcvtime(args) ==
    Get(args.kws, "received_time", Get(args.metadata, "received_time", args.now))

(***************************************************************************)
(* C39 as stated: for every key that a call passes both in the mapping and *)
(* as a keyword argument, the stored metadata holds the value of the       *)
(* keyword argument; the list name of the identity hash and the received   *)
(* time of the id are those of the keyword arguments.                      *)
(***************************************************************************)
C39_KeywordWins ==
    [][\A p \in Procs :
         Enqueues(p) =>
             LET args == loc'[p].args
             IN  /\ \A k \in (DOMAIN args.kws) \cap (DOMAIN args.metadata) :
                       /\ k \in DOMAIN loc'[p].data
                       /\ loc'[p].data[k] = args.kws[k]
                 /\ loc'[p].filebase =
                       <<ArgRcvtime(args),
                         Sha(loc'[p].msgsave, ArgListname(args), args.now)>>]_vars

(***************************************************************************)
(* C39 as the code has it: for every key passed both ways, other than      *)
(* version and the keys with the private prefix, the stored metadata holds *)
(* the value of the keyword argument; version holds the configured schema  *)
(* version, and a private key is not stored, except _parsemsg with the     *)
(* value enqueue computes.  The keyword arguments decide the list name of  *)
(* the identity hash, the received time of the id and of the stored        *)
(* metadata, and, with _plaintext, the encoding.                           *)
(***************************************************************************)
C39_KeywordWinsUnlessStamped ==
    [][\A p \in Procs :
         Enqueues(p) =>
             LET args == loc'[p].args
                 data == loc'[p].data
             IN  /\ \A k \in (DOMAIN args.kws) \cap (DOMAIN args.metadata) :
                       IF k = "version"
                       THEN data[k] = QFILE_SCHEMA_VERSION
                       ELSE IF k = "_parsemsg"
                       THEN data[k] = (loc'[p].protocol = 0)
                       ELSE IF StartsWithUnderscore(k)
                       THEN k \notin DOMAIN data
                       ELSE k \in DOMAIN data /\ data[k] = args.kws[k]
                 /\ data["received_time"] = ArgRcvtime(args)
                 /\ loc'[p].protocol =
                       IF Get(args.kws, "_plaintext",
                              Get(args.metadata, "_plaintext", FALSE))
                       THEN 0 ELSE 1
                 /\ loc'[p].filebase =
                       <<ArgRcvtime(args),
                         Sha(loc'[p].msgsave, ArgListname(args), args.now)>>]_vars

\* a call is under way that was passed listname, recips, received_time and
\* version both ways with different values, and its id starts with the
\* received time of the keyword arguments
C39_Witness ==
    /\ pc[Producer] = "enq_rename"
    /\ LET args == loc[Producer].args
       IN  /\ {"listname", "recips", "received_time", "version"}
                 \subseteq (DOMAIN args.kws) \cap (DOMAIN args.metadata)
           /\ args.kws["listname"] # args.metadata["listname"]
           /\ args.kws["received_time"] # args.metadata["received_time"]
           /\ loc[Producer].filebase[1] = args.kws["received_time"]
           /\ loc[Producer].data["recips"] = args.kws["recips"]

(***************************************************************************)
(* files() step by step.  The directory holds up to MaxFiles names whose   *)
(* received time is 0 or Huge; one process calls files(), which runs       *)
(* its loop over the names and the tie-break loop inside it one test and   *)
(* one addition at a time, while the other process dequeues.  A call that  *)
(* has started goes on: its steps are taken whenever they are enabled.     *)
(***************************************************************************)
ScanTimes == {0, Huge}

\* names like '0+0.pck', '1099511627776.0+1f.pck' and '0+0.pck.tmp'
ScanNames ==
    {[base |-> <<when, digest>>, ext |-> "pck"] :
        when \in ScanTimes, digest \in {0, shamax}}
      \cup {[base |-> <<0, 0>>, ext |-> "tmp"]}

\* no name at this place of the directory
NoName == [base |-> <<>>, ext |-> "none"]

InitScan ==
    \E picked \in [1..MaxFiles -> ScanNames \cup {NoName}] :
      LET names == Range(picked) \ {NoName} IN
        /\ clock = MaxClock
        /\ dir = (CHOOSE f \in [names -> 1..MaxFiles] :
                     \A m \in names, n \in names : f[m] = f[n] => m = n)
        /\ inode = [i \in 1..MaxFiles |-> EnqueuedFile(GoodInput)]
        /\ issued = {}
        /\ live = {n.base : n \in {x \in names : x.ext = "pck"}}
        /\ claimed = {}
        /\ enqCalls = 0
        /\ crashes = 0
        /\ work = [p \in Procs |-> <<>>]
        /\ heap = Defaults
        /\ pc = [p \in Procs |-> "idle"]
        /\ loc = [p \in Procs |-> NoLoc]
        /\ inst = [p \in Procs |-> NoSlices]
        /\ res = [p \in Procs |-> NoRes]
        /\ observed = Procs
        /\ holding = [p \in Procs |-> {}]
        /\ orphans = {}
        /\ dupIds = {}

\* lines 160-163: times = {}; os.listdir() hands the names over in `order`
ScanStart(p, order, extension) ==
    /\ pc[p] = "idle"
    /\ pc' = [pc EXCEPT ![p] = "scan"]
    /\ loc' = [loc EXCEPT ![p] =
                 [op |-> "files", extension |-> extension, todo |-> order,
                  times |-> <<>>]]
    /\ res' = Observe(p, NoRes)
    /\ UNCHANGED <<heap, crashes, work, observed, clock, dir, inode, inst, holding, orphans,
                   issued, dupIds, live, claimed, enqCalls>>

\* lines 163-174 and 179-181: the next name of the listing.  When there is
\* none the sorted list is returned; a name of another extension or of
\* another slice is skipped, a name that does not split raises ValueError,
\* and for any other name key = float(when).
ScanName(p) ==
    /\ pc[p] = "scan"
    /\ IF loc[p].todo = <<>>
       THEN /\ res' = Observe(p, [op |-> "files", status |-> "ok",
                                   list |-> SortedValues(loc[p].times)])
            /\ pc' = [pc EXCEPT ![p] = "idle"]
            /\ loc' = [loc EXCEPT ![p] = NoLoc]
       ELSE LET f == Head(loc[p].todo)
                rest == [loc[p] EXCEPT !.todo = Tail(@)]
            IN  IF ~ExtMatches(f.ext, loc[p].extension)
                THEN /\ loc' = [loc EXCEPT ![p] = rest]
                     /\ UNCHANGED <<pc, res>>
                ELSE IF ~Splits(f.base)
                THEN /\ res' = Observe(p, [op |-> "files", status |-> "error",
                                            exc |-> "ValueError"])
                     /\ pc' = [pc EXCEPT ![p] = "idle"]
                     /\ loc' = [loc EXCEPT ![p] = NoLoc]
                ELSE IF ~InSlice(inst[p].lower, inst[p].upper, f.base[2])
                THEN /\ loc' = [loc EXCEPT ![p] = rest]
                     /\ UNCHANGED <<pc, res>>
                ELSE /\ loc' = [loc EXCEPT ![p] =
                                  [op |-> "files", extension |-> loc[p].extension,
                                   todo |-> Tail(loc[p].todo), times |-> loc[p].times,
                                   filebase |-> f.base, key |-> f.base[1]]]
                     /\ pc' = [pc EXCEPT ![p] = "scan_test"]
                     /\ res' = res
    /\ UNCHANGED <<heap, crashes, work, observed, clock, dir, inode, inst, holding, orphans,
                   issued, dupIds, live, claimed, enqCalls>>

\* lines 175 and 177: while key in times; when the key is free,
\* times[key] = filebase and the loop over the names goes on
ScanTest(p) ==
    /\ pc[p] = "scan_test"
    /\ IF loc[p].key \in DOMAIN loc[p].times
       THEN /\ pc' = [pc EXCEPT ![p] = "scan_bump"]
            /\ loc' = loc
       ELSE /\ pc' = [pc EXCEPT ![p] = "scan"]
            /\ loc' = [loc EXCEPT ![p] =
                         [op |-> "files", extension |-> loc[p].extension,
                          todo |-> loc[p].todo,
                          times |-> Put(loc[p].times, loc[p].key, loc[p].filebase)]]
    /\ UNCHANGED <<heap, crashes, work, observed, clock, dir, inode, inst, res, holding, orphans,
                   issued, dupIds, live, claimed, enqCalls>>

\* line 176: key += DELTA
ScanBump(p) ==
    /\ pc[p] = "scan_bump"
    /\ loc' = [loc EXCEPT ![p].key = FloatAdd(@, DELTA)]
    /\ pc' = [pc EXCEPT ![p] = "scan_test"]
    /\ UNCHANGED <<heap, crashes, work, observed, clock, dir, inode, inst, res, holding, orphans,
                   issued, dupIds, live, claimed, enqCalls>>

\* the steps of a files() call that has started
ScanSteps(p) == ScanName(p) \/ ScanTest(p) \/ ScanBump(p)

\* the steps of a dequeue call that has started
DeqSteps(p) == DeqRename(p) \/ DeqLoad(p)

NextScan ==
    \/ \E order \in Orders(DOMAIN dir) : ScanStart(Lister, order, "pck")
    \/ ScanSteps(Lister)
    \/ \E filebase \in KnownIds \cup {NeverEnqueued} : DeqOpen(Watcher, filebase)
    \/ DeqSteps(Watcher)

SpecScan ==
    /\ InitScan
    /\ [][NextScan]_vars
    /\ WF_vars(ScanSteps(Lister))
    /\ WF_vars(DeqSteps(Watcher))

(***************************************************************************)
(* C32: files() and dequeue() never wait.  Every call of files() that has  *)
(* started returns, on every directory, its tie-break loop included, and   *)
(* every call of dequeue() that has started returns or raises.             *)
(***************************************************************************)
C32_NeverWaits ==
    \A p \in Procs : (pc[p] # "idle") ~> (pc[p] = "idle")

\* this step is a finish call of p for id, whose claim on id a recovery pass
\* has undone since its dequeue
FinishesUndone(p, id) ==
    /\ pc[p] = "idle" /\ pc'[p] = "idle"
    /\ \E c \in holding[p] : c.id = id /\ c.undone
    /\ \A c \in holding'[p] : c.id # id

\* q has dequeued id and holds the file that is in flight under the id
ClaimsInFlight(q, id) ==
    /\ \E c \in holding[q] : c.id = id /\ ~c.undone /\ Exists(dir, Bak(id))
                               /\ dir[Bak(id)] = c.ino

(***************************************************************************)
(* C33: a finish call for an id by a consumer whose claim on the id was    *)
(* undone by a recovery pass leaves in place the in-flight file that a     *)
(* later dequeue of the id by another consumer has created.                *)
(***************************************************************************)
C33_StaleFinishKeepsLaterClaim ==
    [][\A p \in Procs, q \in Procs : \A id \in InFlight(dir) :
         (p # q /\ FinishesUndone(p, id) /\ ClaimsInFlight(q, id)) =>
             /\ Exists(dir', Bak(id))
             /\ dir'[Bak(id)] = dir[Bak(id)]]_vars

(***************************************************************************)
(* C34: a recovery pass that runs next to a consumer which calls dequeue   *)
(* and finish ends without an error, and none of the ids it listed and had *)
(* not reached yet is still in flight when it ends.                        *)
(***************************************************************************)
C34_RecoverCompletes ==
    [][\A p \in Procs :
         Returns(p, "recover") =>
             /\ res'[p].status = "ok"
             /\ pc[p] = "rec" =>
                   \A i \in DOMAIN loc[p].todo :
                       ~Exists(dir', Bak(loc[p].todo[i]))]_vars

\* this step is a call of finish by p: the call starts and ends in one step
\* and leaves its result
Finishes(p) ==
    /\ pc[p] = "idle" /\ pc' = pc /\ loc' = loc /\ work' = work
    /\ res'[p].op = "finish"
    /\ \A q \in Procs \ {p} : res'[q] = res[q]

(***************************************************************************)
(* C35: finish never removes or alters a pending file.  Every call of      *)
(* finish, for whatever id, leaves every pending name of the directory     *)
(* bound to the file it had and leaves the content of every file as it     *)
(* was; when the id is pending at the call it is pending after it, and     *)
(* files() lists it whatever the order of the directory.                   *)
(***************************************************************************)
C35_FinishKeepsPending ==
    [][\A p \in Procs :
         Finishes(p) =>
             /\ inode' = inode
             /\ \A n \in DOMAIN dir :
                   n.ext = "pck" => (n \in DOMAIN dir' /\ dir'[n] = dir[n])
             /\ res'[p].id \in Pending(dir) =>
                   /\ res'[p].id \in Pending(dir')
                   /\ \A order \in Orders(DOMAIN dir') :
                         res'[p].id \in Range(Files(order, "pck", inst[p].lower,
                                                    inst[p].upper))]_vars

\* finish has returned for an id that no dequeue has renamed so far: it was
\* pending at the call, the call found no in-flight file, and it is pending
C35_Witness ==
    \E p \in Procs :
        /\ res[p].op = "finish" /\ ~res[p].found
        /\ res[p].id \in Pending(dir)
        /\ claimed = {}

(***************************************************************************)
(* Frames.  One process enqueues, dequeues and finishes on an empty        *)
(* directory; the other one is started at any time, constructs its         *)
(* instance with recover=False and calls files().                          *)
(***************************************************************************)
InitFrame ==
    /\ clock = 0
    /\ dir = <<>>
    /\ inode = <<>>
    /\ pc = [p \in Procs |-> IF p = Watcher THEN "down" ELSE "idle"]
    /\ loc = [p \in Procs |-> NoLoc]
    /\ inst = [p \in Procs |-> NoSlices]
    /\ res = [p \in Procs |-> NoRes]
    /\ observed = {Watcher}
    /\ holding = [p \in Procs |-> {}]
    /\ orphans = {}
    /\ issued = {}
    /\ dupIds = {}
    /\ live = {}
    /\ claimed = {}
    /\ enqCalls = 0
    /\ crashes = 0
    /\ work = [p \in Procs |-> <<>>]
    /\ heap = Defaults

NextFrame ==
    \/ NextWatched
    \/ \E order \in Orders(DOMAIN dir) : Construct(Watcher, None, 1, FALSE, order)

SpecFrame == InitFrame /\ [][NextFrame]_vars

\* the queue files of directory d: pending and in flight
QueueFiles(d) == {n \in DOMAIN d : n.ext \in {"pck", "bak"}}

\* this step belongs to an enqueue call of p
EnqueueStep(p) ==
    \/ Enqueues(p)
    \/ pc[p] = "enq_flush" /\ pc'[p] = "enq_rename"
    \/ pc[p] = "enq_rename" /\ pc'[p] = "idle"

(***************************************************************************)
(* C36: operations leave what they do not own unchanged.  A call of        *)
(* files() changes neither the directory nor a file; no step of an enqueue *)
(* call changes an item that exists: every pending and every in-flight     *)
(* name stays bound to its file, the content of that file stays, and no id *)
(* that is in flight becomes pending as well; and the constructor with     *)
(* recover=False changes neither the directory nor a file.                 *)
(***************************************************************************)
C36_OthersUnchanged ==
    [][\A p \in Procs :
         /\ Returns(p, "files") => (dir' = dir /\ inode' = inode)
         /\ EnqueueStep(p) =>
              /\ \A n \in QueueFiles(dir) :
                    /\ n \in DOMAIN dir' /\ dir'[n] = dir[n]
                    /\ inode'[dir[n]] = inode[dir[n]]
              /\ InFlight(dir') = InFlight(dir)
              /\ \A id \in InFlight(dir) : id \in Pending(dir') => id \in Pending(dir)
         /\ (pc[p] = "down" /\ pc'[p] = "idle") => (dir' = dir /\ inode' = inode)]_vars

(***************************************************************************)
(* Consumers of two slices that are also handed ids from elsewhere.  The   *)
(* directory and the processes are those of the consumer loops above: each *)
(* process is started with recover set and runs the loop of its slice,     *)
(* which dequeues the ids of its own listing.  Besides, each process may   *)
(* call dequeue and finish for any id of the directory.  No process        *)
(* crashes.                                                                *)
(***************************************************************************)
NextShard ==
    \E p \in Procs :
        \/ LoopStep(p)
        \/ Restarts(p)
        \/ \E filebase \in KnownIds : DeqOpen(p, filebase)
        \/ \E filebase \in KnownIds : Finish(p, filebase, FALSE)

SpecShard == InitLive /\ [][NextShard]_vars

\* dequeue has returned id to p, and p has not called finish for it
Holds(p, id) == \E c \in holding[p] : c.id = id

\* id is the one that the loop of p has taken from its listing
FromListing(p, id) == work[p] # <<>> /\ Head(work[p]) = id

\* the digest of id lies in the range of the instance of p
InShardOf(p, id) == InSlice(inst[p].lower, inst[p].upper, id[2])

(***************************************************************************)
(* C37: sharding is enforced by files() only.  dequeue raises not-found    *)
(* only when the pending file is missing, and finish deletes the in-flight *)
(* file it finds, or logs that the delete failed, whether or not the       *)
(* digest of the id lies in the range of the instance; every id that a loop takes from its own listing lies in   *)
(* the range of its instance, and no two instances of different slices     *)
(* hold the same id when both took it from their own listing.              *)
(***************************************************************************)
C37_ShardedByListingOnly ==
    [][\A p \in Procs :
         /\ (Returns(p, "dequeue") /\ res'[p].status = "notfound")
               => ~Exists(dir, Pck(res'[p].id))
         /\ (pc[p] = "idle" /\ pc'[p] = "deq_rename")
               => Exists(dir, Pck(loc'[p].filebase))
         /\ (Finishes(p) /\ Exists(dir, Bak(res'[p].id)))
               => \/ ~Exists(dir', Bak(res'[p].id))
                  \/ res'[p].found /\ res'[p].logged
         /\ \A id \in LiveIds :
               FromListing(p, id)' => InShardOf(p, id)'
         /\ \A q \in Procs \ {p} : \A id \in LiveIds :
               (Holds(p, id)' /\ Holds(q, id)' /\ inst'[p].slice # inst'[q].slice)
                  => ~(FromListing(p, id)' /\ FromListing(q, id)')]_vars

\* two instances of different slices hold the same id: one took it from its
\* listing after its recovery pass had restored it, the other one was handed
\* the id, which is outside its range
C37_Witness ==
    \E p \in Procs, q \in Procs, id \in LiveIds :
        /\ p # q /\ inst[p].slice # inst[q].slice
        /\ Holds(p, id) /\ Holds(q, id)
        /\ ~InShardOf(p, id) /\ ~FromListing(p, id)
        /\ InShardOf(q, id) /\ FromListing(q, id)

====
